---- MODULE Spec2Model ----
(***************************************************************************)
(* A model of xk6-tempo: the query workload controller                     *)
(* (src/pkg/tempo/workload.go, config.go, metrics.go, the query client of  *)
(* src/unnamed/part_006) and the byte rate limiter                         *)
(* (src/pkg/generator/ratelimit.go).                                       *)
(*                                                                         *)
(* Time.  A time.Duration is an int64 count of nanoseconds; TLC's integers *)
(* are 32 bits wide, so a Duration d is the record [ms, ns] that stands    *)
(* for d = ms * 10^6 + ns nanoseconds with 0 <= ns < 10^6 (ms carries the  *)
(* sign).  The arithmetic below is exact for every |d| < 2^31 ms.  Wall    *)
(* clock instants (time.Time) are whole milliseconds.                      *)
(***************************************************************************)
EXTENDS Integers, Sequences, FiniteSets, TLC

(* time.Millisecond, in nanoseconds *)
NsPerMs == 1000000

(* time.Second, in milliseconds *)
MsPerSecond == 1000

Dur(ms) == [ms |-> ms, ns |-> 0]

Zero == Dur(0)

DurLess(a, b) == a.ms < b.ms \/ (a.ms = b.ms /\ a.ns < b.ns)

DurLeq(a, b) == a = b \/ DurLess(a, b)

DurAdd(a, b) ==
  LET n == a.ns + b.ns
  IN  [ms |-> a.ms + b.ms + (n \div NsPerMs), ns |-> n % NsPerMs]

DurNeg(a) ==
  IF a.ns = 0 THEN [ms |-> 0 - a.ms, ns |-> 0]
  ELSE [ms |-> 0 - a.ms - 1, ns |-> NsPerMs - a.ns]

DurSub(a, b) == DurAdd(a, DurNeg(b))

(* d / 2 of a non-negative Duration, truncated to a nanosecond *)
DurHalf(a) ==
  [ms |-> a.ms \div 2, ns |-> (((a.ms % 2) * NsPerMs) + a.ns) \div 2]

(* time.Duration(float64(d) * 1.5): the product is exact in float64 for    *)
(* these magnitudes and the conversion truncates toward zero.              *)
MulOnePointFive(d) ==
  IF DurLess(d, Zero)
  THEN DurNeg(DurAdd(DurNeg(d), DurHalf(DurNeg(d))))
  ELSE DurAdd(d, DurHalf(d))

(* Duration.Milliseconds(): int64(d) / 1e6, truncated toward zero *)
Milliseconds(d) ==
  IF DurLess(d, Zero) /\ d.ns # 0 THEN d.ms + 1 ELSE d.ms

DurMin(a, b) == IF DurLess(b, a) THEN b ELSE a

(***************************************************************************)
(* 64-bit integers.  An int64 that may not fit TLC's integers is a record  *)
(* [neg, limbs]: its sign and its magnitude in base 1000, least            *)
(* significant limb first, without leading zero limbs.                     *)
(***************************************************************************)
LimbBase == 1000

RECURSIVE Trim(_)
Trim(l) ==
  IF Len(l) > 0 /\ l[Len(l)] = 0 THEN Trim(SubSeq(l, 1, Len(l) - 1)) ELSE l

RECURSIVE LimbsLess(_, _)
LimbsLess(a, b) ==
  IF Len(a) # Len(b) THEN Len(a) < Len(b)
  ELSE IF Len(a) = 0 THEN FALSE
  ELSE IF a[Len(a)] # b[Len(b)] THEN a[Len(a)] < b[Len(b)]
  ELSE LimbsLess(SubSeq(a, 1, Len(a) - 1), SubSeq(b, 1, Len(b) - 1))

(* a - b - borrow for a >= b, before trimming *)
RECURSIVE LimbsSubtract(_, _, _)
LimbsSubtract(a, b, borrow) ==
  IF Len(a) = 0 THEN <<>>
  ELSE LET d == a[1] - (IF Len(b) > 0 THEN b[1] ELSE 0) - borrow
       IN  << IF d < 0 THEN d + LimbBase ELSE d >>
             \o LimbsSubtract(Tail(a), IF Len(b) > 0 THEN Tail(b) ELSE b,
                              IF d < 0 THEN 1 ELSE 0)

LimbsSub(a, b) == Trim(LimbsSubtract(a, b, 0))

(* 2^63 = 9 223 372 036 854 775 808 and 2^64 = 18 446 744 073 709 551 616 *)
TwoTo63 == << 808, 775, 854, 36, 372, 223, 9 >>

TwoTo64 == << 616, 551, 709, 73, 744, 446, 18 >>

(* the int64 that the mathematical integer of sign neg and magnitude m     *)
(* wraps to                                                                *)
RECURSIVE WrapInt64(_, _)
WrapInt64(neg, m) ==
  IF LimbsLess(m, TwoTo63) \/ (neg /\ m = TwoTo63)
  THEN [neg |-> neg /\ m # <<>>, limbs |-> m]
  ELSE IF LimbsLess(m, TwoTo64) \/ m = TwoTo64
  THEN [neg |-> ~neg /\ m # TwoTo64, limbs |-> LimbsSub(TwoTo64, m)]
  ELSE WrapInt64(neg, LimbsSub(m, TwoTo64))

RECURSIVE LimbsValue(_)
LimbsValue(l) ==
  IF Len(l) = 0 THEN 0 ELSE l[1] + LimbBase * LimbsValue(Tail(l))

(* a count of nanoseconds as a Duration *)
Nanoseconds(n) ==
  LET l == n.limbs \o << 0, 0 >>
      d == [ms |-> LimbsValue(SubSeq(l, 3, Len(l))),
            ns |-> l[1] + LimbBase * l[2]]
  IN  IF n.neg THEN DurNeg(d) ELSE d

(* time.Duration(n) * time.Second: the product in int64 *)
Seconds(n) == Nanoseconds(WrapInt64(n.neg, Trim(<< 0, 0, 0 >> \o n.limbs)))

(***************************************************************************)
(* float64.  A finite float64 is the record [neg, m, e] that stands for    *)
(* m * 2^e (negated when neg), with m either 0 or 2^52 <= m < 2^53, in     *)
(* limbs.  Every operation rounds its exact result to the nearest float64, *)
(* ties to even, as IEEE 754 arithmetic does.  Subnormals, infinities and  *)
(* NaN are outside the magnitudes used here.                               *)
(***************************************************************************)
(* 2^52 = 4 503 599 627 370 496 and 2^53 = 9 007 199 254 740 992 *)
TwoTo52 == << 496, 370, 627, 599, 503, 4 >>

TwoTo53 == << 992, 740, 254, 199, 7, 9 >>

RECURSIVE LimbsSum(_, _, _)
LimbsSum(a, b, carry) ==
  IF Len(a) = 0 /\ Len(b) = 0
  THEN (IF carry = 0 THEN <<>> ELSE << carry >>)
  ELSE LET d == (IF Len(a) > 0 THEN a[1] ELSE 0)
                  + (IF Len(b) > 0 THEN b[1] ELSE 0) + carry
       IN  << d % LimbBase >>
             \o LimbsSum(IF Len(a) > 0 THEN Tail(a) ELSE a,
                         IF Len(b) > 0 THEN Tail(b) ELSE b, d \div LimbBase)

LimbsAdd(a, b) == LimbsSum(a, b, 0)

(* a * c + carry for a small factor c (c <= 2^20) *)
RECURSIVE LimbsTimes(_, _, _)
LimbsTimes(a, c, carry) ==
  IF Len(a) = 0 THEN (IF carry = 0 THEN <<>> ELSE LimbsTimes(<< carry >>, 1, 0))
  ELSE << (a[1] * c + carry) % LimbBase >>
         \o LimbsTimes(Tail(a), c, (a[1] * c + carry) \div LimbBase)

LimbsMul(a, c) == Trim(LimbsTimes(a, c, 0))

(* a \div c and a % c for a small divisor c (c <= 2^20), most significant  *)
(* limb first; rem is the remainder handed down                            *)
RECURSIVE LimbsDivide(_, _, _)
LimbsDivide(a, c, rem) ==
  IF Len(a) = 0 THEN [q |-> <<>>, r |-> rem]
  ELSE LET cur == a[Len(a)] + rem * LimbBase
           low == LimbsDivide(SubSeq(a, 1, Len(a) - 1), c, cur % c)
       IN  [q |-> low.q \o << cur \div c >>, r |-> low.r]

LimbsDivMod(a, c) ==
  LET d == LimbsDivide(a, c, 0) IN [q |-> Trim(d.q), r |-> d.r]

LimbsOdd(a) == Len(a) > 0 /\ a[1] % 2 = 1

RECURSIVE NatLimbs(_)
NatLimbs(n) ==
  IF n = 0 THEN <<>> ELSE << n % LimbBase >> \o NatLimbs(n \div LimbBase)

Float64Zero == [neg |-> FALSE, m |-> <<>>, e |-> 0]

(* the most bits one pass shifts by *)
ShiftBits == 20

(* the float64 nearest to the value n * 2^e + (a positive amount below 2^e *)
(* when sticky), ties to even                                              *)
RECURSIVE Float64Round(_, _, _)
Float64Round(n, e, sticky) ==
  IF n = <<>> THEN Float64Zero
  ELSE IF ~LimbsLess(n, LimbsMul(TwoTo53, 2 ^ ShiftBits))
  THEN LET d == LimbsDivMod(n, 2 ^ ShiftBits)
       IN  Float64Round(d.q, e + ShiftBits, sticky \/ d.r # 0)
  ELSE IF ~LimbsLess(n, TwoTo53)
  THEN LET s == CHOOSE k \in 1..ShiftBits : LimbsLess(n, LimbsMul(TwoTo53, 2 ^ k))
                  /\ ~LimbsLess(n, LimbsMul(TwoTo52, 2 ^ k))
           d == LimbsDivMod(n, 2 ^ s)
           round == d.r >= 2 ^ (s - 1)
           rest == sticky \/ d.r % (2 ^ (s - 1)) # 0
           m == IF round /\ (rest \/ LimbsOdd(d.q))
                THEN LimbsAdd(d.q, << 1 >>) ELSE d.q
       IN  IF m = TwoTo53 THEN [neg |-> FALSE, m |-> TwoTo52, e |-> e + s + 1]
           ELSE [neg |-> FALSE, m |-> m, e |-> e + s]
  ELSE IF ~LimbsLess(n, TwoTo52)
  THEN [neg |-> FALSE, m |-> n, e |-> e]
  ELSE IF LimbsLess(LimbsMul(n, 2 ^ ShiftBits), TwoTo53)
  THEN Float64Round(LimbsMul(n, 2 ^ ShiftBits), e - ShiftBits, sticky)
  ELSE LET s == CHOOSE k \in 1..ShiftBits : ~LimbsLess(LimbsMul(n, 2 ^ k), TwoTo52)
                  /\ LimbsLess(LimbsMul(n, 2 ^ k), TwoTo53)
       IN  [neg |-> FALSE, m |-> LimbsMul(n, 2 ^ s), e |-> e - s]

(* float64(n) of an integer n *)
Float64(n) ==
  IF n < 0 THEN [Float64Round(NatLimbs(0 - n), 0, FALSE) EXCEPT !.neg = TRUE]
  ELSE Float64Round(NatLimbs(n), 0, FALSE)

(* the bits of the quotient one division step gives *)
QuotientBits == 9

(* r * 2^QuotientBits divided by d, for r < d: the quotient, a small       *)
(* number found by bisection between lo and hi, and the remainder          *)
RECURSIVE Float64DivDigit(_, _, _, _)
Float64DivDigit(n, d, lo, hi) ==
  IF lo = hi THEN lo
  ELSE LET mid == (lo + hi + 1) \div 2
       IN  IF LimbsLess(n, LimbsMul(d, mid))
           THEN Float64DivDigit(n, d, lo, mid - 1)
           ELSE Float64DivDigit(n, d, mid, hi)

Float64DivStep(r, d) ==
  LET n == LimbsMul(r, 2 ^ QuotientBits)
      q == Float64DivDigit(n, d, 0, 2 ^ QuotientBits - 1)
  IN  [q |-> q, r |-> LimbsSub(n, LimbsMul(d, q))]

(* k more steps of the quotient of r / d, r < d, after the quotient q *)
RECURSIVE Float64DivSteps(_, _, _, _)
Float64DivSteps(r, d, q, k) ==
  IF k = 0 THEN [q |-> q, r |-> r]
  ELSE LET st == Float64DivStep(r, d)
       IN  Float64DivSteps(st.r, d,
             LimbsAdd(LimbsMul(q, 2 ^ QuotientBits), NatLimbs(st.q)), k - 1)

(* floor(xm * 2^54 / ym) for mantissas xm, ym, and the remainder *)
Float64Quotient(xm, ym) ==
  IF LimbsLess(xm, ym) THEN Float64DivSteps(xm, ym, <<>>, 6)
  ELSE Float64DivSteps(LimbsSub(xm, ym), ym, << 1 >>, 6)

(* x / y for x >= 0 and y > 0 *)
Float64Div(x, y) ==
  IF x.m = <<>> THEN Float64Zero
  ELSE LET d == Float64Quotient(x.m, y.m)
       IN  Float64Round(d.q, x.e - y.e - 54, d.r # <<>>)

(* x + y for x >= 0 and y >= 0 *)
Float64Add(x, y) ==
  IF x.m = <<>> THEN y
  ELSE IF y.m = <<>> THEN x
  ELSE LET hi == IF x.e >= y.e THEN x ELSE y
           lo == IF x.e >= y.e THEN y ELSE x
           d == hi.e - lo.e
       IN  IF d > 3 * ShiftBits THEN hi
           ELSE Float64Round(
                  LimbsAdd(LimbsMul(LimbsMul(LimbsMul(hi.m,
                             2 ^ (IF d > ShiftBits THEN ShiftBits ELSE d)),
                             2 ^ (IF d > 2 * ShiftBits THEN ShiftBits
                                  ELSE IF d > ShiftBits THEN d - ShiftBits
                                  ELSE 0)),
                             2 ^ (IF d > 2 * ShiftBits THEN d - 2 * ShiftBits
                                  ELSE 0)),
                           lo.m),
                  lo.e, FALSE)

(* x > 0 *)
Float64Positive(x) == ~x.neg /\ x.m # <<>>

(* x < y for x >= 0 *)
Float64Less(x, y) ==
  /\ Float64Positive(y)
  /\ \/ x.m = <<>>
     \/ x.e < y.e
     \/ x.e = y.e /\ LimbsLess(x.m, y.m)

(* the float64 a decimal literal num / den denotes, den a power of ten *)
Float64Literal(num, den) ==
  IF num < 0 THEN [Float64Div(Float64(0 - num), Float64(den)) EXCEPT !.neg = TRUE]
  ELSE Float64Div(Float64(num), Float64(den))

(***************************************************************************)
(* strconv.Atoi over header values.  A header value is a sequence of       *)
(* one-character strings; the empty sequence is the absent header          *)
(* (Header.Get returns "").                                                *)
(***************************************************************************)
DigitVal ==
  [c \in {"0", "1", "2", "3", "4", "5", "6", "7", "8", "9"} |->
     CASE c = "0" -> 0 [] c = "1" -> 1 [] c = "2" -> 2 [] c = "3" -> 3
       [] c = "4" -> 4 [] c = "5" -> 5 [] c = "6" -> 6 [] c = "7" -> 7
       [] c = "8" -> 8 [] c = "9" -> 9]

AtoiDigits(s) == IF Len(s) > 0 /\ s[1] \in {"+", "-"} THEN Tail(s) ELSE s

RECURSIVE AtoiMagnitude(_)
AtoiMagnitude(ds) ==
  IF Len(ds) = 0 THEN 0
  ELSE 10 * AtoiMagnitude(SubSeq(ds, 1, Len(ds) - 1)) + DigitVal[ds[Len(ds)]]

(* the magnitude of a run of decimal digits, three digits to a limb *)
RECURSIVE DigitLimbs(_)
DigitLimbs(ds) ==
  IF Len(ds) <= 3 THEN << AtoiMagnitude(ds) >>
  ELSE << AtoiMagnitude(SubSeq(ds, Len(ds) - 2, Len(ds))) >>
         \o DigitLimbs(SubSeq(ds, 1, Len(ds) - 3))

AtoiSyntaxOk(s) ==
  /\ Len(AtoiDigits(s)) > 0
  /\ \A i \in 1..Len(AtoiDigits(s)) : AtoiDigits(s)[i] \in DOMAIN DigitVal

(* Atoi fails on a syntax error and on a value outside int *)
AtoiOk(s) ==
  /\ AtoiSyntaxOk(s)
  /\ LET m == Trim(DigitLimbs(AtoiDigits(s)))
     IN  LimbsLess(m, TwoTo63) \/ (s[1] = "-" /\ m = TwoTo63)

Atoi(s) ==
  LET m == Trim(DigitLimbs(AtoiDigits(s)))
  IN  [neg |-> s[1] = "-" /\ m # <<>>, limbs |-> m]

(***************************************************************************)
(* time.ParseDuration over the duration strings of the model: an optional  *)
(* sign, decimal digits and one unit character ("h", "m" or "s"), or the   *)
(* literal "0".  The value is in milliseconds.  Anything else is an error. *)
(***************************************************************************)
UnitMs ==
  [u \in {"h", "m", "s"} |->
     CASE u = "h" -> 3600000 [] u = "m" -> 60000 [] u = "s" -> 1000]

ParseDurationOk(s) ==
  \/ s = <<"0">>
  \/ /\ Len(s) >= 2
     /\ s[Len(s)] \in DOMAIN UnitMs
     /\ AtoiSyntaxOk(SubSeq(s, 1, Len(s) - 1))

ParseDuration(s) ==
  IF s = <<"0">> THEN 0
  ELSE (IF s[1] = "-" THEN -1 ELSE 1)
         * AtoiMagnitude(AtoiDigits(SubSeq(s, 1, Len(s) - 1)))
         * UnitMs[s[Len(s)]]

(***************************************************************************)
(* Query workload configuration                                            *)
(***************************************************************************)
HourMs == 3600000

(* the wall clock at NewQueryWorkload, in ms since the Unix epoch *)
StartEpochMs == 100 * HourMs

TimeBuckets ==
  << [Name |-> "recent", AgeStart |-> <<"0", "m">>, AgeEnd |-> <<"1", "h">>],
     [Name |-> "old", AgeStart |-> <<"1", "h">>, AgeEnd |-> <<"6", "h">>],
     [Name |-> "broken", AgeStart |-> <<"1", "h">>, AgeEnd |-> <<"x">>] >>

Queries == {"q1"}

ExecutionPlan ==
  << [QueryName |-> "q1", BucketName |-> "recent", Weight |-> 1],
     [QueryName |-> "q1", BucketName |-> "old", Weight |-> 2],
     [QueryName |-> "nosuchquery", BucketName |-> "recent", Weight |-> 0],
     [QueryName |-> "q1", BucketName |-> "nosuchbucket", Weight |-> 1],
     [QueryName |-> "q1", BucketName |-> "broken", Weight |-> 1] >>

(* tenths: TraceFetchProbability of DefaultQueryWorkloadConfig is 0.1 *)
TraceFetchProbabilityTenths == 1

DefaultQueryWorkloadConfig ==
  [TargetQPS |-> 10, BurstMultiplier |-> 2, QPSMultiplier |-> 1,
   EnableBackoff |-> TRUE, MinBackoffMs |-> 200, MaxBackoffMs |-> 30000,
   BackoffJitter |-> TRUE, TimeWindowJitterMs |-> 0,
   TraceFetchProbability |-> TraceFetchProbabilityTenths,
   TimeBuckets |->
     << [Name |-> "recent", AgeStart |-> <<"0", "m">>,
         AgeEnd |-> <<"1", "h">>] >>,
   ExecutionPlan |->
     << [QueryName |-> "default", BucketName |-> "recent", Weight |-> 1] >>]

(* CreateQueryWorkload: the keys the script gives override the defaults *)
CreateQueryWorkload(workloadConfig) ==
  [k \in DOMAIN DefaultQueryWorkloadConfig |->
     IF k \in DOMAIN workloadConfig THEN workloadConfig[k]
     ELSE DefaultQueryWorkloadConfig[k]]

(* the workload configuration of the test script *)
ScriptConfig ==
  [TargetQPS |-> 1, TimeBuckets |-> TimeBuckets,
   ExecutionPlan |-> ExecutionPlan]

WorkloadConfigs ==
  { CreateQueryWorkload(ScriptConfig),
    CreateQueryWorkload([EnableBackoff |-> FALSE] @@ ScriptConfig),
    CreateQueryWorkload([MinBackoffMs |-> 500, MaxBackoffMs |-> 300,
                         BackoffJitter |-> FALSE] @@ ScriptConfig),
    CreateQueryWorkload([MinBackoffMs |-> 5] @@ ScriptConfig) }

WindowConfigs ==
  { CreateQueryWorkload(ScriptConfig),
    CreateQueryWorkload([TimeWindowJitterMs |-> 2] @@ ScriptConfig) }

(* perVUQPS and burstSize of NewQueryWorkload *)
BurstSize(c) ==
  LET b == c.TargetQPS * c.QPSMultiplier * c.BurstMultiplier
  IN  IF b < 1 THEN 1 ELSE b

AllWorkers == {"w1", "w2"}

(* calls the worker of a workload of its own makes *)
MaxCalls == 3

(* calls the workers sharing a workload make, all together *)
MaxSharedCalls == 2

MaxWindowCalls == 2

(* hours the wall clock advances after the test start *)
MaxElapsedHours == 7

StatusCodes == {200, 404, 429, 503}

RetryAfterValues ==
  { <<>>, <<"1">>, <<"6", "0">>, <<"-", "1">>, <<"W", "e", "d">>,
    <<"1", "8", "4", "4", "6", "7", "4", "4", "0", "7", "4">> }

NoResp == [present |-> FALSE, status |-> 0, retryAfter |-> <<>>]

Resp(s, h) == [present |-> TRUE, status |-> s, retryAfter |-> h]

NoEntry == [QueryName |-> "", BucketName |-> "", Weight |-> 0]

NoTime == [set |-> FALSE, v |-> 0]

AtTime(t) == [set |-> TRUE, v |-> t]

NoRequest == [sent |-> FALSE, start |-> NoTime, end |-> NoTime, at |-> 0]

NoMetrics ==
  [query_duration_seconds |-> 0, query_requests_total |-> 0,
   query_failures_total |-> 0, query_failures_by_status |-> 0,
   query_spans_returned |-> 0, query_time_bucket_queries_total |-> 0,
   query_time_bucket_duration_seconds |-> 0, query_backoff_events_total |-> 0,
   query_backoff_duration_seconds |-> 0, trace_fetch_latency_seconds |-> 0,
   trace_fetch_failures_total |-> 0]

VARIABLES
  cfg,              \* QueryWorkload.config
  scenario,         \* the environment: the workers sharing the workload and what the harness and the server may do
  now,              \* the wall clock, ms since the Unix epoch
  backoffDuration,  \* QueryWorkload.backoffDuration
  backoffMutex,     \* QueryWorkload.backoffMutex: its holder, or "free"
  rateTokens,       \* tokens available in QueryWorkload.rateLimiter
  pc,               \* each worker's position
  op,               \* the public operation each worker is in
  calls,            \* calls each worker has started
  ctxDone,          \* ctx.Done() of each worker's call is closed
  planEntry,        \* executeNext: planEntry
  httpResp,         \* executeNext / executeSearchAndFetch: httpResp
  err,              \* the error of the call so far
  traces,           \* len(result.Traces), -1 for a nil result
  oldBackoff,       \* executeNext: oldBackoff
  window,           \* executeNext: start, end before the search
  request,          \* the query parameters of the last search sent
  path,             \* which call site hands the response to the backoff
  sleep,            \* applyBackoff: the delay slept, and how it ended
  emitted,          \* metric samples pushed by each worker's current call
  history,          \* what each worker's current call did to shared state
  transition        \* what each worker's call did to backoffDuration on the outcome of its last request

wvars ==
  << cfg, scenario, now, backoffDuration, backoffMutex, rateTokens, pc, op,
     calls, ctxDone, planEntry, httpResp, err, traces, oldBackoff, window,
     request, path, sleep, emitted, history, transition >>

VARIABLES
  byteLimiter,  \* the ByteRateLimiter r: targetBytesPerSec and limiter, a reference into limiters
  limiters,  \* every rate.Limiter allocated so far: its limit, burst and tokens
  mu,        \* ByteRateLimiter.mu: its holder, or "free"
  wait,      \* the frame of each goroutine's Wait
  setRate,   \* the frame of the goroutine calling SetRate
  lcalls,    \* Wait and SetRate calls started so far
  meter      \* an observer of the limiters: seconds passed and bytes granted by each limiter since it started watching

lvars == << byteLimiter, limiters, mu, wait, setRate, lcalls, meter >>

VARIABLES
  treeConfig,  \* the TraceTreeConfig the script holds: its nodes, and the edges NormalizeWeights rewrites in place
  rng,         \* the *rand.Rand of GenerateTraceFromTree: the values of its stream so far and how many the current invocation has read
  stack,       \* the frames of generateSpansFromNode, the innermost last
  treeSpans,   \* every span the invocation under way has built, in the order built
  invocation,  \* the locals of the GenerateTraceFromTree under way: traceID, the time.Now() it read, the seconds it took off and traces.ResourceSpans()
  pending,     \* the keys of spansByService the grouping loop has not ranged over yet
  generated    \* the ptrace.Traces returned so far, each with the time.Now() its invocation read

tvars == << treeConfig, rng, stack, treeSpans, invocation, pending, generated >>

VARIABLES
  edges,       \* a []TraceTreeEdge under NormalizeWeights
  picks        \* what the calls on edges did: the lists NormalizeWeights left and the edges SelectChildren took

nvars == << edges, picks >>

VARIABLES
  cardConfig,   \* the cardConfig each caller of GetValue passes
  valuePools,   \* CardinalityManager.valuePools
  cardinality,  \* CardinalityManager.cardinality
  getValue,     \* the frame of each caller's GetValue
  returned,     \* what GetValue has returned to each caller, and for which attribute
  arrays,       \* the backing arrays generateValuePool has allocated, by address
  resets        \* the calls of ResetPools so far

cvars == << cardConfig, valuePools, cardinality, getValue, returned, arrays,
           resets >>

VARIABLES
  config,         \* the Config GenerateTrace is called with
  spansMap,       \* GenerateTrace: spansMap, the span of index i at position i + 1
  serviceIndex,   \* GenerateTrace: serviceIndex
  resourceSpans   \* GenerateTrace: the one ResourceSpans of traces, its resource attributes and its spans, and how far the call is

dvars == << config, spansMap, serviceIndex, resourceSpans >>

VARIABLES
  moduleCalls   \* the calls a script has made on the ModuleInstance, each with what it returned

mvars == << moduleCalls >>

VARIABLES
  push          \* the frame of each goroutine's pushBatchWithRateLimitInternal

ivars == << push >>

gvars == << tvars, nvars, cvars, dvars, mvars, ivars >>

NoWindow == [eligible |-> FALSE, start |-> 0, end |-> 0, offset |-> 0, at |-> 0]

NoSleep == [state |-> "none", delay |-> Zero]

NoHistory ==
  [tokens |-> 0, searches |-> 0, fetches |-> 0, writes |-> 0,
   increases |-> <<>>, samples |-> <<>>, cancelledIn |-> "none",
   fetchFailed |-> FALSE, fetchedTrace |-> -1]

NoTransition ==
  [kind |-> "none", path |-> "none", old |-> Zero, new |-> Zero,
   resp |-> NoResp]

InitWorkload(c, sc, t) ==
  /\ cfg = c
  /\ scenario = sc
  /\ now = t
  /\ backoffDuration = Zero
  /\ backoffMutex = "free"
  /\ rateTokens = BurstSize(c)
  /\ pc = [w \in AllWorkers |-> "idle"]
  /\ op = [w \in AllWorkers |-> "none"]
  /\ calls = [w \in AllWorkers |-> 0]
  /\ ctxDone = [w \in AllWorkers |-> FALSE]
  /\ planEntry = [w \in AllWorkers |-> NoEntry]
  /\ httpResp = [w \in AllWorkers |-> NoResp]
  /\ err = [w \in AllWorkers |-> "nil"]
  /\ traces = [w \in AllWorkers |-> -1]
  /\ oldBackoff = [w \in AllWorkers |-> Zero]
  /\ window = [w \in AllWorkers |-> NoWindow]
  /\ request = [w \in AllWorkers |-> NoRequest]
  /\ path = [w \in AllWorkers |-> "none"]
  /\ sleep = [w \in AllWorkers |-> NoSleep]
  /\ emitted = [w \in AllWorkers |-> NoMetrics]
  /\ history = [w \in AllWorkers |-> NoHistory]
  /\ transition = [w \in AllWorkers |-> NoTransition]

(* metrics.PushIfNotDone of one sample of each metric in names *)
Push(m, names) ==
  [k \in DOMAIN m |-> IF k \in names THEN m[k] + 1 ELSE m[k]]

(***************************************************************************)
(* ExecuteNext / ExecuteSearchAndFetch: a worker enters a call.            *)
(***************************************************************************)
RECURSIVE TotalCalls(_, _)
TotalCalls(c, ws) ==
  IF ws = {} THEN 0
  ELSE LET w == CHOOSE x \in ws : TRUE
       IN  c[w] + TotalCalls(c, ws \ {w})

StartCall(w) ==
  /\ w \in scenario.workers
  /\ pc[w] \in {"idle", "done"}
  /\ TotalCalls(calls, scenario.workers) < scenario.maxCalls
  /\ \E o \in {"executeNext", "executeSearchAndFetch"} :
       op' = [op EXCEPT ![w] = o]
  /\ calls' = [calls EXCEPT ![w] = @ + 1]
  /\ pc' = [pc EXCEPT ![w] = "wait"]
  /\ ctxDone' = [ctxDone EXCEPT ![w] = FALSE]
  /\ planEntry' = [planEntry EXCEPT ![w] = NoEntry]
  /\ httpResp' = [httpResp EXCEPT ![w] = NoResp]
  /\ err' = [err EXCEPT ![w] = "nil"]
  /\ traces' = [traces EXCEPT ![w] = -1]
  /\ oldBackoff' = [oldBackoff EXCEPT ![w] = Zero]
  /\ window' = [window EXCEPT ![w] = NoWindow]
  /\ request' = [request EXCEPT ![w] = NoRequest]
  /\ path' = [path EXCEPT ![w] = "none"]
  /\ sleep' = [sleep EXCEPT ![w] = NoSleep]
  /\ emitted' = [emitted EXCEPT ![w] = NoMetrics]
  /\ history' = [history EXCEPT ![w] = NoHistory]
  /\ transition' = [transition EXCEPT ![w] = NoTransition]
  /\ UNCHANGED << lvars, gvars,
                  cfg, scenario, now, backoffDuration, backoffMutex,
                  rateTokens >>

(* the caller's context is cancelled while the call is in progress *)
Cancel(w) ==
  /\ pc[w] \notin {"idle", "done"}
  /\ ~ctxDone[w]
  /\ ctxDone' = [ctxDone EXCEPT ![w] = TRUE]
  /\ history' = [history EXCEPT ![w].cancelledIn =
                   IF pc[w] \in {"wait", "sleeping"} THEN pc[w] ELSE "elsewhere"]
  /\ UNCHANGED << lvars, gvars,
                  cfg, scenario, now, backoffDuration, backoffMutex,
                  rateTokens, pc, op, calls, planEntry, httpResp, err, traces,
                  oldBackoff, window, request, path, sleep, emitted,
                  transition >>

(* time passes and the query rate limiter gains a token *)
Refill ==
  /\ rateTokens < BurstSize(cfg)
  /\ rateTokens' = rateTokens + 1
  /\ UNCHANGED << lvars, gvars,
                  cfg, scenario, now, backoffDuration, backoffMutex, pc, op,
                  calls, ctxDone, planEntry, httpResp, err, traces,
                  oldBackoff, window, request, path, sleep, emitted, history,
                  transition >>

(* qw.rateLimiter.Wait(ctx) *)
RateLimiterWait(w) ==
  /\ pc[w] = "wait"
  /\ \/ /\ ctxDone[w]
        /\ err' = [err EXCEPT ![w] = "rate_limiter_wait_failed"]
        /\ pc' = [pc EXCEPT ![w] = "done"]
        /\ UNCHANGED << rateTokens, history >>
     \/ /\ ~ctxDone[w]
        /\ rateTokens > 0
        /\ rateTokens' = rateTokens - 1
        /\ history' = [history EXCEPT ![w].tokens = @ + 1]
        /\ pc' = [pc EXCEPT ![w] = "applyBackoff"]
        /\ UNCHANGED err
  /\ UNCHANGED << lvars, gvars,
                  cfg, scenario, now, backoffDuration, backoffMutex, op, calls,
                  ctxDone, planEntry, httpResp, traces, oldBackoff, window,
                  request, path, sleep, emitted, transition >>

(***************************************************************************)
(* applyBackoff                                                            *)
(***************************************************************************)
(* the values of rand.Intn(k) the model draws: the least and the greatest *)
JitterDraws(k) == {0, k - 1}

(* backoffMutex.Lock() of applyBackoff, or the early return *)
ApplyBackoffLock(w) ==
  /\ pc[w] = "applyBackoff"
  /\ \/ /\ ~cfg.EnableBackoff
        /\ pc' = [pc EXCEPT ![w] = "select"]
        /\ UNCHANGED backoffMutex
     \/ /\ cfg.EnableBackoff
        /\ backoffMutex = "free"
        /\ backoffMutex' = w
        /\ pc' = [pc EXCEPT ![w] = "backoffCheck"]
  /\ UNCHANGED << lvars, gvars,
                  cfg, scenario, now, backoffDuration, rateTokens, op, calls,
                  ctxDone, planEntry, httpResp, err, traces, oldBackoff,
                  window, request, path, sleep, emitted, history,
                  transition >>

(* the body of applyBackoff up to the select: the delay and its jitter.    *)
(* rand.Intn(n) panics for n <= 0; the deferred Unlock runs.               *)
ApplyBackoffDelay(w) ==
  /\ pc[w] = "backoffCheck"
  /\ backoffMutex = w
  /\ IF ~DurLess(Zero, backoffDuration)
     THEN /\ backoffMutex' = "free"
          /\ pc' = [pc EXCEPT ![w] = "select"]
          /\ UNCHANGED << sleep, err >>
     ELSE IF ~cfg.BackoffJitter
     THEN /\ sleep' = [sleep EXCEPT ![w] =
                         [state |-> "sleeping", delay |-> backoffDuration]]
          /\ pc' = [pc EXCEPT ![w] = "sleeping"]
          /\ UNCHANGED << backoffMutex, err >>
     ELSE IF Milliseconds(backoffDuration) \div 10 <= 0
     THEN /\ backoffMutex' = "free"
          /\ err' = [err EXCEPT ![w] = "panic"]
          /\ pc' = [pc EXCEPT ![w] = "done"]
          /\ UNCHANGED sleep
     ELSE /\ \E j \in JitterDraws(Milliseconds(backoffDuration) \div 10) :
               sleep' = [sleep EXCEPT ![w] =
                           [state |-> "sleeping",
                            delay |-> DurAdd(backoffDuration, Dur(j))]]
          /\ pc' = [pc EXCEPT ![w] = "sleeping"]
          /\ UNCHANGED << backoffMutex, err >>
  /\ UNCHANGED << lvars, gvars,
                  cfg, scenario, now, backoffDuration, rateTokens, op, calls,
                  ctxDone, planEntry, httpResp, traces, oldBackoff, window,
                  request, path, emitted, history, transition >>

(* the select of applyBackoff: the timer fires, or ctx.Done() is closed;   *)
(* either way applyBackoff returns nothing and executeNext goes on.        *)
ApplyBackoffWake(w) ==
  /\ pc[w] = "sleeping"
  /\ backoffMutex = w
  /\ \/ sleep' = [sleep EXCEPT ![w] = [state |-> "elapsed", delay |-> Zero]]
     \/ /\ ctxDone[w]
        /\ sleep' = [sleep EXCEPT ![w] = [state |-> "cancelled", delay |-> Zero]]
  /\ backoffMutex' = "free"
  /\ pc' = [pc EXCEPT ![w] = "select"]
  /\ UNCHANGED << lvars, gvars,
                  cfg, scenario, now, backoffDuration, rateTokens, op, calls,
                  ctxDone, planEntry, httpResp, err, traces, oldBackoff,
                  window, request, path, emitted, history, transition >>

(***************************************************************************)
(* selectPlanEntry, the lookups and the time range                         *)
(***************************************************************************)
EffectiveWeight(e) == IF e.Weight <= 0 THEN 1 ELSE e.Weight

RECURSIVE CumulativeWeight(_, _)
CumulativeWeight(plan, i) ==
  IF i = 0 THEN 0
  ELSE CumulativeWeight(plan, i - 1) + EffectiveWeight(plan[i])

(* the index selectPlanEntry returns for r = r2 / 2 in [0, totalWeight):   *)
(* the first entry whose cumulative weight reaches r.  0 for an empty plan *)
selectPlanEntry(plan, r2) ==
  IF Len(plan) = 0 THEN 0
  ELSE LET hit == {i \in 1..Len(plan) : r2 <= 2 * CumulativeWeight(plan, i)}
       IN  IF hit = {} THEN 1
           ELSE CHOOSE i \in hit : \A k \in hit : i <= k

(* getTimeBucket falling back to the first bucket when the name is unknown *)
getTimeBucketOrFirst(buckets, name) ==
  LET hit == {i \in 1..Len(buckets) : buckets[i].Name = name}
  IN  IF hit = {} THEN 1 ELSE CHOOSE i \in hit : \A k \in hit : i <= k

(* getTimeBucket: the index of the first bucket of that name, 0 if none *)
getTimeBucket(buckets, name) ==
  LET hit == {i \in 1..Len(buckets) : buckets[i].Name = name}
  IN  IF hit = {} THEN 0 ELSE CHOOSE i \in hit : \A k \in hit : i <= k

(* ParseTimeRanges with the bucket eligible only after ageEnd has passed *)
ParseTimeRangesLate(tb, elapsed, t) ==
  IF ~ParseDurationOk(tb.AgeStart) \/ ~ParseDurationOk(tb.AgeEnd)
  THEN [err |-> TRUE, eligible |-> FALSE, start |-> 0, end |-> 0]
  ELSE IF elapsed <= ParseDuration(tb.AgeEnd)
  THEN [err |-> FALSE, eligible |-> FALSE, start |-> 0, end |-> 0]
  ELSE [err |-> FALSE, eligible |-> TRUE,
        start |-> t - ParseDuration(tb.AgeEnd),
        end |-> t - ParseDuration(tb.AgeStart)]

(* TimeBucketConfig.ParseTimeRanges, read at wall clock t *)
ParseTimeRanges(tb, elapsed, t) ==
  IF ~ParseDurationOk(tb.AgeStart) \/ ~ParseDurationOk(tb.AgeEnd)
  THEN [err |-> TRUE, eligible |-> FALSE, start |-> 0, end |-> 0]
  ELSE IF elapsed < ParseDuration(tb.AgeEnd)
  THEN [err |-> FALSE, eligible |-> FALSE, start |-> 0, end |-> 0]
  ELSE [err |-> FALSE, eligible |-> TRUE,
        start |-> t - ParseDuration(tb.AgeEnd),
        end |-> t - ParseDuration(tb.AgeStart)]

(* time.Duration((rand.Float64()*2-1) * jitterMs) * time.Millisecond:      *)
(* rand.Float64() is in [0, 1) and the conversion truncates toward zero    *)
JitterOffsets(jitterMs) == (0 - jitterMs)..(jitterMs - 1)

(* QueryWorkload.testStartTime: time.Now() in NewQueryWorkload *)
testStartTime == StartEpochMs

(* executeNext from selectPlanEntry to the choice of the search path *)
SelectAndResolve(w) ==
  /\ pc[w] = "select"
  /\ LET plan == cfg.ExecutionPlan
         total == CumulativeWeight(plan, Len(plan))
     IN
     IF Len(plan) = 0
     THEN /\ err' = [err EXCEPT ![w] = "no_eligible_plan_entry"]
          /\ pc' = [pc EXCEPT ![w] = "done"]
          /\ UNCHANGED << planEntry, window, path >>
     ELSE \E r2 \in 0..(2 * total - 1) :
       LET e == plan[selectPlanEntry(plan, r2)]
           b == getTimeBucket(cfg.TimeBuckets, e.BucketName)
           elapsed == now - testStartTime
           tr == ParseTimeRanges(cfg.TimeBuckets[b], elapsed, now)
       IN
       /\ planEntry' = [planEntry EXCEPT ![w] = e]
       /\ IF e.QueryName \notin Queries
          THEN /\ err' = [err EXCEPT ![w] = "query_definition_not_found"]
               /\ pc' = [pc EXCEPT ![w] = "done"]
               /\ UNCHANGED << window, path >>
          ELSE IF b = 0
          THEN /\ err' = [err EXCEPT ![w] = "time_bucket_not_found"]
               /\ pc' = [pc EXCEPT ![w] = "done"]
               /\ UNCHANGED << window, path >>
          ELSE IF tr.err
          THEN /\ err' = [err EXCEPT ![w] = "failed_to_parse_time_bucket"]
               /\ pc' = [pc EXCEPT ![w] = "done"]
               /\ UNCHANGED << window, path >>
          ELSE IF ~tr.eligible
          THEN /\ pc' = [pc EXCEPT ![w] = "searchDefault"]
               /\ path' = [path EXCEPT ![w] = "default"]
               /\ window' = [window EXCEPT ![w] = [NoWindow EXCEPT !.at = now]]
               /\ UNCHANGED err
          ELSE /\ \E off \in (IF cfg.TimeWindowJitterMs > 0
                              THEN JitterOffsets(cfg.TimeWindowJitterMs)
                              ELSE {0}) :
                    window' = [window EXCEPT ![w] =
                                 [eligible |-> TRUE, start |-> tr.start + off,
                                  end |-> tr.end + off, offset |-> off,
                                  at |-> now]]
               /\ pc' = [pc EXCEPT ![w] = "search"]
               /\ path' = [path EXCEPT ![w] = "eligible"]
               /\ UNCHANGED err
  /\ UNCHANGED << lvars, gvars,
                  cfg, scenario, now, backoffDuration, backoffMutex,
                  rateTokens, op, calls, ctxDone, httpResp, traces,
                  oldBackoff, request, sleep, emitted, history,
                  transition >>

(***************************************************************************)
(* The query client: parseTime and the parameters searchWithHTTP sends.    *)
(* A time string is a duration text, or the decimal text of an integer.    *)
(***************************************************************************)
TextStr(s) == [kind |-> "text", s |-> s, v |-> 0]

(* fmt.Sprintf("%d", n) *)
FormatInt(n) == [kind |-> "integer", s |-> <<>>, v |-> n]

NowStr == TextStr(<<"n", "o", "w">>)

(* parseTime at wall clock t: a duration first (the text "0" is one), then *)
(* an integer timestamp                                                    *)
parseTime(ts, t) ==
  IF ts.kind = "text"
  THEN IF ParseDurationOk(ts.s)
       THEN [ok |-> TRUE, v |-> t - ParseDuration(ts.s)]
       ELSE [ok |-> FALSE, v |-> 0]
  ELSE IF ts.v = 0 THEN [ok |-> TRUE, v |-> t - 0]
       ELSE [ok |-> TRUE, v |-> ts.v]

(* the start and end parameters searchWithHTTP puts in the URL *)
SearchParams(options, t) ==
  [sent |-> TRUE, at |-> t,
   start |-> AtTime(parseTime(options.Start, t).v),
   end |-> IF options.End = NowStr THEN NoTime
           ELSE AtTime(parseTime(options.End, t).v)]

(* what client.Do and the decoding can come to: (httpResp, err, traces) *)
Outcome(r, e, n) == [resp |-> r, err |-> e, traces |-> n]

TransportError == Outcome(NoResp, "failed_to_send_request", -1)

(* a Retry-After header is drawn for the statuses whose handling reads it *)
HTTPOutcomes(statuses, headers) ==
  { Outcome(Resp(s, h), "http_error", -1) :
      s \in {c \in statuses : c = 429 \/ c >= 500}, h \in headers }
  \cup { Outcome(Resp(s, <<>>), "http_error", -1) :
      s \in {c \in statuses : c < 200 \/ (c >= 300 /\ c # 429 /\ c < 500)} }
  \cup { Outcome(Resp(s, <<>>), "failed_to_decode_response", -1) :
      s \in {c \in statuses : c >= 200 /\ c < 300} }
  \cup { Outcome(Resp(s, <<>>), "nil", n) :
      s \in {c \in statuses : c >= 200 /\ c < 300}, n \in {0, 1} }

(* a request made with a cancelled context fails in client.Do before it is *)
(* written to the connection; history counts the requests that were sent   *)
ClientOutcomes(cancelled) ==
  IF cancelled THEN {TransportError}
  ELSE {TransportError} \cup HTTPOutcomes(scenario.statuses, scenario.headers)

(* the samples RecordQueryDetailed pushes *)
RecordQueryDetailed(spans, success, statusCode) ==
  {"query_duration_seconds", "query_requests_total"}
  \cup (IF ~success THEN {"query_failures_total"} ELSE {})
  \cup (IF ~success /\ statusCode > 0 THEN {"query_failures_by_status"} ELSE {})
  \cup (IF spans > 0 THEN {"query_spans_returned"} ELSE {})

(* the samples RecordTimeBucketQuery pushes *)
RecordTimeBucketQuery ==
  {"query_time_bucket_queries_total", "query_time_bucket_duration_seconds"}

(* executeNext: the search of an eligible bucket and its metrics *)
Search(w) ==
  /\ pc[w] = "search"
  /\ \E o \in ClientOutcomes(ctxDone[w]) :
       /\ httpResp' = [httpResp EXCEPT ![w] = o.resp]
       /\ err' = [err EXCEPT ![w] = o.err]
       /\ traces' = [traces EXCEPT ![w] = o.traces]
       /\ emitted' = [emitted EXCEPT ![w] =
            Push(Push(@, RecordQueryDetailed(IF o.traces > 0 THEN o.traces ELSE 0,
                                             o.err = "nil", o.resp.status)),
                 RecordTimeBucketQuery)]
  /\ request' = [request EXCEPT ![w] =
       SearchParams([Start |-> FormatInt(window[w].start),
                     End |-> FormatInt(window[w].end)], now)]
  /\ history' = [history EXCEPT ![w].searches =
                   IF ctxDone[w] THEN @ ELSE @ + 1]
  /\ pc' = [pc EXCEPT ![w] = "readOld"]
  /\ UNCHANGED << lvars, gvars,
                  cfg, scenario, now, backoffDuration, backoffMutex,
                  rateTokens, op, calls, ctxDone, planEntry, oldBackoff,
                  window, path, sleep, transition >>

(* executeWithDefaultTimeRange: the search and its metrics *)
SearchDefault(w) ==
  /\ pc[w] = "searchDefault"
  /\ \E o \in ClientOutcomes(ctxDone[w]) :
       /\ httpResp' = [httpResp EXCEPT ![w] = o.resp]
       /\ err' = [err EXCEPT ![w] = o.err]
       /\ traces' = [traces EXCEPT ![w] = o.traces]
       /\ emitted' = [emitted EXCEPT ![w] =
            Push(@, RecordQueryDetailed(IF o.traces > 0 THEN o.traces ELSE 0,
                                        o.err = "nil", o.resp.status))]
  /\ request' = [request EXCEPT ![w] =
       SearchParams([Start |-> TextStr(<<"1", "h">>), End |-> NowStr], now)]
  /\ history' = [history EXCEPT ![w].searches =
                   IF ctxDone[w] THEN @ ELSE @ + 1]
  /\ pc' = [pc EXCEPT ![w] = "handleResp"]
  /\ UNCHANGED << lvars, gvars,
                  cfg, scenario, now, backoffDuration, backoffMutex,
                  rateTokens, op, calls, ctxDone, planEntry, oldBackoff,
                  window, path, sleep, transition >>

(* executeNext: oldBackoff := qw.backoffDuration, read without the mutex *)
ReadOldBackoff(w) ==
  /\ pc[w] = "readOld"
  /\ oldBackoff' = [oldBackoff EXCEPT ![w] = backoffDuration]
  /\ pc' = [pc EXCEPT ![w] = "handleResp"]
  /\ UNCHANGED << lvars, gvars,
                  cfg, scenario, now, backoffDuration, backoffMutex,
                  rateTokens, op, calls, ctxDone, planEntry, httpResp, err,
                  traces, window, request, path, sleep, emitted, history,
                  transition >>

(***************************************************************************)
(* The backoff state machine                                               *)
(***************************************************************************)
MaxBackoff(c) == Dur(c.MaxBackoffMs)

MinBackoff(c) == Dur(c.MinBackoffMs)

Overload(status) == status = 429 \/ (status >= 500 /\ status < 600)

(* HandleHTTPResponse without its final else branch: a status that is not  *)
(* an overload leaves the backoff as it is                                 *)
HandleHTTPResponseNoReset(d, resp, c) ==
  IF Overload(resp.status)
  THEN IF resp.retryAfter # <<>> /\ AtoiOk(resp.retryAfter)
       THEN DurMin(Seconds(Atoi(resp.retryAfter)), MaxBackoff(c))
       ELSE IF d = Zero
            THEN MinBackoff(c)
            ELSE DurMin(MulOnePointFive(d), MaxBackoff(c))
  ELSE d

(* the body of HandleHTTPResponse under the mutex: the new backoffDuration *)
HandleHTTPResponse(d, resp, c) ==
  IF Overload(resp.status)
  THEN IF resp.retryAfter # <<>> /\ AtoiOk(resp.retryAfter)
       THEN IF DurLess(MaxBackoff(c), Seconds(Atoi(resp.retryAfter)))
            THEN MaxBackoff(c)
            ELSE Seconds(Atoi(resp.retryAfter))
       ELSE IF d = Zero
            THEN MinBackoff(c)
            ELSE IF DurLess(MaxBackoff(c), MulOnePointFive(d))
                 THEN MaxBackoff(c)
                 ELSE MulOnePointFive(d)
  ELSE Zero

(* AfterHandle for a trace fetch that goes through the rate limiter and    *)
(* the backoff as a search does                                            *)
AfterHandleFetchWaits(p) ==
  CASE p = "eligible" -> "recordBackoff"
    [] p = "default" -> "afterNext"
    [] p = "fetch" -> "wait"

(* where a call site goes on after the response was handed to the backoff *)
AfterHandle(p) ==
  CASE p = "eligible" -> "recordBackoff"
    [] p = "default" -> "afterNext"
    [] p = "fetch" -> "fetchRecord"

(* the call sites of HandleHTTPResponse and of the resets to 0: the early  *)
(* return of HandleHTTPResponse, or backoffMutex.Lock()                    *)
HandleLock(w) ==
  /\ pc[w] = "handleResp"
  /\ \/ /\ httpResp[w].present
        /\ ~cfg.EnableBackoff
        /\ pc' = [pc EXCEPT ![w] = AfterHandle(path[w])]
        /\ transition' = [transition EXCEPT ![w] =
             [kind |-> "response", path |-> path[w], old |-> backoffDuration,
              new |-> backoffDuration, resp |-> httpResp[w]]]
        /\ UNCHANGED backoffMutex
     \/ /\ ~(httpResp[w].present /\ ~cfg.EnableBackoff)
        /\ backoffMutex = "free"
        /\ backoffMutex' = w
        /\ pc' = [pc EXCEPT ![w] = "handleBody"]
        /\ UNCHANGED transition
  /\ UNCHANGED << lvars, gvars,
                  cfg, scenario, now, backoffDuration, rateTokens, op, calls,
                  ctxDone, planEntry, httpResp, err, traces, oldBackoff,
                  window, request, path, sleep, emitted, history >>

(* the write under the mutex, and Unlock *)
HandleBody(w) ==
  /\ pc[w] = "handleBody"
  /\ backoffMutex = w
  /\ LET new == IF httpResp[w].present
                THEN HandleHTTPResponse(backoffDuration, httpResp[w], cfg)
                ELSE Zero
     IN
     /\ backoffDuration' = new
     /\ transition' = [transition EXCEPT ![w] =
          [kind |-> IF httpResp[w].present THEN "response" ELSE "reset",
           path |-> path[w], old |-> backoffDuration, new |-> new,
           resp |-> httpResp[w]]]
     /\ history' = [history EXCEPT
          ![w].writes = @ + 1,
          ![w].increases = IF DurLess(backoffDuration, new)
                           THEN Append(@, DurSub(new, backoffDuration))
                           ELSE @]
  /\ backoffMutex' = "free"
  /\ pc' = [pc EXCEPT ![w] = AfterHandle(path[w])]
  /\ UNCHANGED << lvars, gvars,
                  cfg, scenario, now, rateTokens, op, calls, ctxDone,
                  planEntry, httpResp, err, traces, oldBackoff, window,
                  request, path, sleep, emitted >>

(* executeNext: the condition that guards RecordBackoff; backoffDuration   *)
(* is read without the mutex                                               *)
RecordBackoffCheck(w) ==
  /\ pc[w] = "recordBackoff"
  /\ pc' = [pc EXCEPT ![w] =
       IF cfg.EnableBackoff /\ DurLess(oldBackoff[w], backoffDuration)
       THEN "recordBackoffValue" ELSE "afterNext"]
  /\ UNCHANGED << lvars, gvars,
                  cfg, scenario, now, backoffDuration, backoffMutex,
                  rateTokens, op, calls, ctxDone, planEntry, httpResp, err,
                  traces, oldBackoff, window, request, path, sleep, emitted,
                  history, transition >>

(* the samples RecordBackoff pushes *)
RecordBackoff == {"query_backoff_events_total", "query_backoff_duration_seconds"}

(* executeNext: RecordBackoff(qw.backoffDuration - oldBackoff), a second   *)
(* read without the mutex                                                  *)
RecordBackoffValue(w) ==
  /\ pc[w] = "recordBackoffValue"
  /\ emitted' = [emitted EXCEPT ![w] = Push(@, RecordBackoff)]
  /\ history' = [history EXCEPT ![w].samples =
                   Append(@, DurSub(backoffDuration, oldBackoff[w]))]
  /\ pc' = [pc EXCEPT ![w] = "afterNext"]
  /\ UNCHANGED << lvars, gvars,
                  cfg, scenario, now, backoffDuration, backoffMutex,
                  rateTokens, op, calls, ctxDone, planEntry, httpResp, err,
                  traces, oldBackoff, window, request, path, sleep,
                  transition >>

(* the values of rand.Float64() the model draws, in tenths *)
FetchDraws == {0, 5}

(* executeNext returns; executeSearchAndFetch decides about the fetch *)
AfterNext(w) ==
  /\ pc[w] = "afterNext"
  /\ IF op[w] = "executeNext" \/ err[w] # "nil" \/ traces[w] <= 0
     THEN pc' = [pc EXCEPT ![w] = "done"]
     ELSE \E r \in FetchDraws :
            pc' = [pc EXCEPT ![w] =
                     IF r < cfg.TraceFetchProbability THEN "fetch" ELSE "done"]
  /\ UNCHANGED << lvars, gvars,
                  cfg, scenario, now, backoffDuration, backoffMutex,
                  rateTokens, op, calls, ctxDone, planEntry, httpResp, err,
                  traces, oldBackoff, window, request, path, sleep, emitted,
                  history, transition >>

(* RecordTraceFetch without the sample of a failure *)
RecordTraceFetchLatencyOnly(success) == {"trace_fetch_latency_seconds"}

(* the samples RecordTraceFetch pushes *)
RecordTraceFetch(success) ==
  {"trace_fetch_latency_seconds"}
  \cup (IF ~success THEN {"trace_fetch_failures_total"} ELSE {})

(* executeSearchAndFetch: getTraceWithHTTP for result.Traces[0];           *)
(* fetchedTrace is the index into result.Traces of the trace asked for     *)
Fetch(w) ==
  /\ pc[w] = "fetch"
  /\ \E o \in ClientOutcomes(ctxDone[w]) :
       /\ httpResp' = [httpResp EXCEPT ![w] = o.resp]
       /\ history' = [history EXCEPT ![w].fetches = IF ctxDone[w] THEN @ ELSE @ + 1,
                                     ![w].fetchFailed = (o.err # "nil"),
                                     ![w].fetchedTrace = 0]
       /\ pc' = [pc EXCEPT ![w] =
                   IF o.resp.present THEN "handleResp" ELSE "fetchRecord"]
       /\ transition' = [transition EXCEPT ![w] =
            IF o.resp.present THEN @
            ELSE [kind |-> "ignored", path |-> "fetch",
                  old |-> backoffDuration, new |-> backoffDuration,
                  resp |-> NoResp]]
  /\ path' = [path EXCEPT ![w] = "fetch"]
  /\ UNCHANGED << lvars, gvars,
                  cfg, scenario, now, backoffDuration, backoffMutex,
                  rateTokens, op, calls, ctxDone, planEntry, err, traces,
                  oldBackoff, window, request, sleep, emitted >>

(* executeSearchAndFetch: the fetch metrics, and return nil *)
FetchRecord(w) ==
  /\ pc[w] = "fetchRecord"
  /\ emitted' = [emitted EXCEPT ![w] =
                   Push(@, RecordTraceFetch(~history[w].fetchFailed))]
  /\ pc' = [pc EXCEPT ![w] = "done"]
  /\ UNCHANGED << lvars, gvars,
                  cfg, scenario, now, backoffDuration, backoffMutex,
                  rateTokens, op, calls, ctxDone, planEntry, httpResp, err,
                  traces, oldBackoff, window, request, path, sleep, history,
                  transition >>

(* an hour of wall-clock time passes; a call reads the clock when it       *)
(* resolves its window and when it sends its search, so that is where the  *)
(* passing of time shows                                                   *)
Tick ==
  /\ now - testStartTime < MaxElapsedHours * HourMs
  /\ \A w \in scenario.workers :
       pc[w] \in {"idle", "done", "select", "search", "searchDefault"}
  /\ now' = now + HourMs
  /\ UNCHANGED << lvars, gvars,
                  cfg, scenario, backoffDuration, backoffMutex, rateTokens,
                  pc, op, calls, ctxDone, planEntry, httpResp, err, traces,
                  oldBackoff, window, request, path, sleep, emitted, history,
                  transition >>

(***************************************************************************)
(* generator.ByteRateLimiter.  One token is one byte.  A rate is written   *)
(* in bytes per second: the argument targetMBps of the source is that      *)
(* number divided by bytesPerMB.  A burst multiplier is a fraction.        *)
(***************************************************************************)
bytesPerMB == 1048576

minBurstSize == 1

defaultTargetMBps == 1

(* a burst multiplier of one half instead of the default *)
halfBurstMultiplier == [num |-> 1, den |-> 2]

defaultBurstMultiplier == [num |-> 3, den |-> 2]

MaxWaitCalls == 2

MaxSetRateCalls == 1

MaxBytes == 2

Waiters == {"g1", "g2"}

(* the arguments of NewByteRateLimiter, SetRate and Wait *)
NewArguments ==
  { [targetBytesPerSec |-> 0, burstMultiplier |-> [num |-> 0, den |-> 1]],
    [targetBytesPerSec |-> 2, burstMultiplier |-> [num |-> 1, den |-> 2]] }

SetRates == {0, 1, 3}

WaitSizes == {-1, 0, MaxBytes}

(* calculateBurstSize: int() truncates the product, which is not negative *)
calculateBurstSize(targetBytesPerSec, burstMultiplier) ==
  LET burstSize == (targetBytesPerSec * burstMultiplier.num)
                     \div burstMultiplier.den
  IN  IF burstSize < minBurstSize THEN minBurstSize ELSE burstSize

(* rate.NewLimiter(limit, burst): the bucket starts full *)
NewLimiter(limit, burst) == [limit |-> limit, burst |-> burst, tokens |-> burst]

(* NewByteRateLimiter: the limiter it allocates *)
NewByteRateLimiter(targetBytesPerSec, burstMultiplier) ==
  LET m == IF burstMultiplier.num <= 0 THEN defaultBurstMultiplier
           ELSE burstMultiplier
      t == IF targetBytesPerSec <= 0 THEN defaultTargetMBps * bytesPerMB
           ELSE targetBytesPerSec
  IN  NewLimiter(t, calculateBurstSize(t, m))

NoWait ==
  [pc |-> "idle", n |-> 0, bytes |-> 0, limiter |-> 0, burstSize |-> 0,
   waitAmount |-> 0, err |-> "nil", ctxDone |-> FALSE, acquired |-> 0,
   issued |-> [amount |-> 0, burst |-> 0], used |-> {}]

NoSetRate == [pc |-> "idle", targetBytesPerSec |-> 0]

(* the observer before it watches *)
NoMeter ==
  [on |-> FALSE, clock |-> 0,
   granted |-> [i \in 1..(1 + MaxSetRateCalls) |-> 0]]

InitLimiter(l) ==
  /\ limiters = << l >>
  /\ byteLimiter = [targetBytesPerSec |-> l.limit, limiter |-> 1]
  /\ mu = "free"
  /\ wait = [g \in Waiters |-> NoWait]
  /\ setRate = NoSetRate
  /\ lcalls = [Wait |-> 0, SetRate |-> 0]
  /\ meter = NoMeter

(* Wait is called with the byte count n: bytes <= 0 returns at once *)
CallWait(g) ==
  /\ wait[g].pc \in {"idle", "returned"}
  /\ lcalls.Wait < MaxWaitCalls
  /\ lcalls' = [lcalls EXCEPT !.Wait = @ + 1]
  /\ \E n \in WaitSizes :
       wait' = [wait EXCEPT ![g] =
                  [NoWait EXCEPT !.n = n, !.bytes = n,
                                 !.pc = IF n <= 0 THEN "returned" ELSE "lock"]]
  /\ UNCHANGED << wvars, gvars, byteLimiter, limiters, mu, setRate, meter >>

(* Wait: r.mu.Lock() *)
WaitLock(g) ==
  /\ wait[g].pc = "lock"
  /\ mu = "free"
  /\ mu' = g
  /\ wait' = [wait EXCEPT ![g].pc = "snapshot"]
  /\ UNCHANGED << wvars, gvars, byteLimiter, limiters, setRate, lcalls, meter >>

(* Wait without the clamp: the whole remainder, whatever the burst *)
waitAmountUnclamped(bytes, burstSize) == bytes

(* Wait: waitAmount, the remainder clamped to the burst read *)
waitAmount(bytes, burstSize) ==
  IF bytes > burstSize THEN burstSize ELSE bytes

(* Wait: limiter := r.limiter; burstSize := limiter.Burst(); r.mu.Unlock() *)
(* and the choice of waitAmount                                            *)
WaitSnapshot(g) ==
  /\ wait[g].pc = "snapshot"
  /\ mu = g
  /\ mu' = "free"
  /\ wait' = [wait EXCEPT
       ![g].limiter = byteLimiter.limiter,
       ![g].burstSize = limiters[byteLimiter.limiter].burst,
       ![g].waitAmount = waitAmount(wait[g].bytes,
                                    limiters[byteLimiter.limiter].burst),
       ![g].pc = "waitN"]
  /\ UNCHANGED << wvars, gvars, byteLimiter, limiters, setRate, lcalls, meter >>

(* Wait: limiter.WaitN(ctx, waitAmount) returns and bytes -= waitAmount.   *)
(* WaitN fails when the context is done or the amount exceeds the burst of *)
(* its limiter, and otherwise returns once the limiter holds the tokens    *)
WaitN(g) ==
  LET f == wait[g]
      l == limiters[f.limiter]
  IN
  /\ f.pc = "waitN"
  /\ \/ /\ f.ctxDone
        /\ wait' = [wait EXCEPT ![g].err = "context_canceled",
                                ![g].pc = "returned"]
        /\ UNCHANGED << limiters, meter >>
     \/ /\ ~f.ctxDone
        /\ f.waitAmount > l.burst
        /\ wait' = [wait EXCEPT ![g].err = "exceeds_burst",
                                ![g].pc = "returned"]
        /\ UNCHANGED << limiters, meter >>
     \/ /\ ~f.ctxDone
        /\ f.waitAmount <= l.burst
        /\ l.tokens >= f.waitAmount
        /\ limiters' = [limiters EXCEPT ![f.limiter].tokens = @ - f.waitAmount]
        /\ meter' = IF meter.on
                    THEN [meter EXCEPT !.granted[f.limiter] = @ + f.waitAmount]
                    ELSE meter
        /\ wait' = [wait EXCEPT
             ![g].bytes = @ - f.waitAmount,
             ![g].acquired = @ + f.waitAmount,
             ![g].issued = [amount |-> f.waitAmount, burst |-> l.burst],
             ![g].used = @ \cup {f.limiter},
             ![g].pc = IF f.bytes - f.waitAmount > 0 THEN "lock"
                       ELSE "returned"]
  /\ UNCHANGED << wvars, gvars, byteLimiter, mu, setRate, lcalls >>

(* SetRate is called: a rate that is not positive returns at once *)
CallSetRate ==
  /\ setRate.pc = "idle"
  /\ lcalls.SetRate < MaxSetRateCalls
  /\ lcalls' = [lcalls EXCEPT !.SetRate = @ + 1]
  /\ \E t \in SetRates :
       setRate' = [pc |-> IF t <= 0 THEN "idle" ELSE "lock",
                   targetBytesPerSec |-> t]
  /\ UNCHANGED << wvars, gvars, byteLimiter, limiters, mu, wait, meter >>

(* SetRate: r.mu.Lock() *)
SetRateLock ==
  /\ setRate.pc = "lock"
  /\ mu = "free"
  /\ mu' = "setRate"
  /\ setRate' = [setRate EXCEPT !.pc = "store"]
  /\ UNCHANGED << wvars, gvars, byteLimiter, limiters, wait, lcalls, meter >>

(* SetRate: the new limiter replaces the old one, and the deferred Unlock *)
SetRateStore ==
  /\ setRate.pc = "store"
  /\ mu = "setRate"
  /\ limiters' = Append(limiters,
       NewLimiter(setRate.targetBytesPerSec,
                  calculateBurstSize(setRate.targetBytesPerSec,
                                     defaultBurstMultiplier)))
  /\ byteLimiter' = [targetBytesPerSec |-> setRate.targetBytesPerSec,
                     limiter |-> Len(limiters) + 1]
  /\ mu' = "free"
  /\ setRate' = [setRate EXCEPT !.pc = "idle"]
  /\ UNCHANGED << wvars, gvars, wait, lcalls, meter >>

(* a second passes with no cap on the bucket: tokens pile up past burst *)
LimiterRefillUncapped ==
  /\ \E i \in 1..Len(limiters) : limiters[i].tokens < limiters[i].burst
  /\ limiters' = [i \in 1..Len(limiters) |->
       [limiters[i] EXCEPT !.tokens = @ + limiters[i].limit]]
  /\ meter' = IF meter.on THEN [meter EXCEPT !.clock = @ + 1] ELSE meter
  /\ UNCHANGED << wvars, gvars, byteLimiter, mu, wait, setRate, lcalls >>

(* a second passes: every limiter gains limit tokens, up to its burst *)
LimiterRefill ==
  /\ \E i \in 1..Len(limiters) : limiters[i].tokens < limiters[i].burst
  /\ limiters' = [i \in 1..Len(limiters) |->
       [limiters[i] EXCEPT !.tokens =
          IF @ + limiters[i].limit > limiters[i].burst
          THEN limiters[i].burst ELSE @ + limiters[i].limit]]
  /\ meter' = IF meter.on THEN [meter EXCEPT !.clock = @ + 1] ELSE meter
  /\ UNCHANGED << wvars, gvars, byteLimiter, mu, wait, setRate, lcalls >>

(* the observer starts a window: from now on it counts the seconds and the *)
(* bytes each limiter grants                                               *)
StartWindow ==
  /\ ~meter.on
  /\ meter' = [NoMeter EXCEPT !.on = TRUE]
  /\ UNCHANGED << wvars, gvars, byteLimiter, limiters, mu, wait, setRate, lcalls >>

(***************************************************************************)
(* The trace tree generator: GenerateTraceFromTree and the recursion       *)
(* generateSpansFromNode, one frame of stack for each call under way.      *)
(* A *TraceTreeNode is an index into treeConfig.Nodes.  A time is a number *)
(* of nanoseconds after traceStartTime.  The stream of a rand.Rand is a    *)
(* sequence of values 0..9: Float64 reads the value as tenths, Intn(n)     *)
(* scales it to 0..n-1 and NormFloat64 reads it as a distance from 5.  One *)
(* value stands for the bytes of an id.                                    *)
(***************************************************************************)
MaxGenerations == 2

NoCount == [Min |-> 0, Max |-> 0]

(* a TraceTreeEdge; Declared remembers the weight the script wrote, in     *)
(* tenths, which the Weight field loses when NormalizeWeights rewrites it  *)
TraceTreeEdge(tenths, parallel, count, node) ==
  [Weight |-> Float64Literal(tenths, 10), Declared |-> tenths,
   Parallel |-> parallel, Count |-> count, Node |-> node]

(* a TraceTreeNode; ErrorRate is in tenths *)
TraceTreeNode(service, tags, baseMs, varianceMs, errorRate, propagates, children) ==
  [Service |-> service, Tags |-> tags,
   Duration |-> [BaseMs |-> baseMs, VarianceMs |-> varianceMs],
   ErrorRate |-> errorRate, ErrorPropagates |-> propagates,
   Children |-> children]

(* a two millisecond root calling one service once or twice in sequence *)
ShortParentTree ==
  << TraceTreeNode("frontend",
                   {<< "http.method", "POST" >>, << "http.route", "/api" >>},
                   2, 0, 0, FALSE,
                   << TraceTreeEdge(10, FALSE, [Min |-> 1, Max |-> 2], 2) >>),
     TraceTreeNode("auth", {}, 1, 0, 0, FALSE, <<>>) >>

(* a root with two sequential children and a parallel one; the first and   *)
(* the last always fail and propagate their error                          *)
OrderTree ==
  << TraceTreeNode("frontend", {}, 50, 0, 0, FALSE,
                   << TraceTreeEdge(10, FALSE, NoCount, 2),
                      TraceTreeEdge(7, FALSE, NoCount, 3),
                      TraceTreeEdge(10, TRUE, NoCount, 4) >>),
     TraceTreeNode("auth", {}, 25, 0, 10, TRUE, <<>>),
     TraceTreeNode("backend", {}, 5, 0, 0, FALSE, <<>>),
     TraceTreeNode("backend", {}, 5, 0, 10, TRUE, <<>>) >>

(* Defaults.UseSemanticAttributes and Defaults.EnableTags are off and      *)
(* Context.Propagate is empty; seed 0 asks for a stream from the clock     *)
TreeConfigs ==
  { [Seed |-> 42, Root |-> 1, Nodes |-> ShortParentTree],
    [Seed |-> 0, Root |-> 1, Nodes |-> ShortParentTree],
    [Seed |-> 0, Root |-> 1, Nodes |-> OrderTree] }

NoInvocation ==
  [running |-> FALSE, traceID |-> 0, now |-> 0, seconds |-> 0,
   resourceSpans |-> <<>>]

InitTree(c) ==
  /\ treeConfig = c
  /\ rng = [log |-> <<>>, pos |-> 0]
  /\ stack = <<>>
  /\ treeSpans = <<>>
  /\ invocation = NoInvocation
  /\ pending = {}
  /\ generated = <<>>

(* every order a range over a map with the entries s can take *)
MapOrders(s) ==
  { o \in [1..Cardinality(s) -> s] : \A x \in s : \E i \in DOMAIN o : o[i] = x }

(* the values the k-th read of this step can return: the stream's value if *)
(* the stream of this seed was read that far before, else any of draws     *)
Rand(r, k, draws) ==
  IF r.pos + k <= Len(r.log) THEN {r.log[r.pos + k]} ELSE draws

(* the rand.Rand after reading the values ds *)
Read(r, ds) ==
  [log |-> IF r.pos + Len(ds) <= Len(r.log) THEN r.log
           ELSE SubSeq(r.log, 1, r.pos) \o ds,
   pos |-> r.pos + Len(ds)]

Intn(u, n) == (u * n) \div 10

(* rng.Float64() for each value of the stream *)
Float64s == [u \in 0..9 |-> Float64Literal(u, 10)]

NormFloat64(u) == u - 5

UnitDraws == {0, 9}

IdDraws == {0}

PickDraws == {0}

DurationDraws(dur) == IF dur.VarianceMs = 0 THEN {5} ELSE {3, 6}

ErrorDraws(node) == IF node.ErrorRate \in {0, 10} THEN {0} ELSE UnitDraws

NowReadings == {0, 1}

errorMessages ==
  << "connection timeout", "database connection failed", "invalid request",
     "authentication failed", "rate limit exceeded", "service unavailable",
     "internal server error", "not found", "permission denied",
     "request timeout" >>

(* time.Duration(rng.Float64() * fraction/10 * float64(d)) *)
RandomDelay(u, fraction, d) == (u * fraction * d) \div 100

calculateDurationFromConfig(dur, u) ==
  LET base == IF dur.BaseMs <= 0 THEN 50 ELSE dur.BaseMs
      variance == IF dur.VarianceMs < 0 THEN 30 ELSE dur.VarianceMs
      duration == base + NormFloat64(u) * variance
  IN  (IF duration < 1 THEN 1 ELSE duration) * NsPerMs

RECURSIVE SumWeights(_, _, _)
SumWeights(es, i, total) ==
  IF i > Len(es) THEN total
  ELSE SumWeights(es, i + 1,
                  IF Float64Positive(es[i].Weight)
                  THEN Float64Add(total, es[i].Weight) ELSE total)

NormalizeWeights(es) ==
  LET defined == Cardinality({i \in DOMAIN es : Float64Positive(es[i].Weight)})
      total == SumWeights(es, 1, Float64Zero)
  IN  IF es = <<>> THEN es
      ELSE IF defined = 0
      THEN LET equal == Float64Div(Float64(1), Float64(Len(es)))
           IN  [i \in DOMAIN es |-> [es[i] EXCEPT !.Weight = equal]]
      ELSE [i \in DOMAIN es |->
              IF Float64Positive(es[i].Weight)
              THEN [es[i] EXCEPT !.Weight = Float64Div(@, total)]
              ELSE es[i]]

(* SelectChildren on one edge: how many times it is appended, given the    *)
(* value u read for the selection and c read for the count                 *)
SelectCount(edge, u, c) ==
  IF ~Float64Less(Float64s[u], edge.Weight) THEN 0
  ELSE IF edge.Count.Max > 0
  THEN IF edge.Count.Min < edge.Count.Max
       THEN edge.Count.Min + Intn(c, edge.Count.Max - edge.Count.Min + 1)
       ELSE edge.Count.Min
  ELSE 1

(* SelectChildren reads a second value for this edge *)
ReadsCount(edge, u) ==
  /\ Float64Less(Float64s[u], edge.Weight)
  /\ edge.Count.Max > 0
  /\ edge.Count.Min < edge.Count.Max

filterParallel(es, parallel) == SelectSeq(es, LAMBDA e : e.Parallel = parallel)

Top == stack[Len(stack)]

SetTop(f) == [stack EXCEPT ![Len(stack)] = f]

(* the frame of a call generateSpansFromNode(node, parentSpan, ...) *)
Call(node, parent, parallel) ==
  [phase |-> "enter", node |-> node, parent |-> parent, parallel |-> parallel,
   span |-> 0, k |-> 1, selected |-> <<>>, i |-> 1, currentTime |-> 0]

(* GenerateTraceFromTree up to the call on the root.  A seed other than 0  *)
(* starts the same stream again and resets the value pools; seed 0 takes a *)
(* stream from the clock.                                                  *)
GenerateTraceFromTree ==
  /\ ~invocation.running
  /\ Len(generated) < (IF treeConfig.Seed # 0 THEN MaxGenerations ELSE 1)
  /\ LET r == IF treeConfig.Seed # 0 THEN [rng EXCEPT !.pos = 0]
              ELSE [log |-> <<>>, pos |-> 0]
         seeded == treeConfig.Seed # 0
     IN  \E t \in NowReadings :
         \E id \in (IF seeded THEN Rand(r, 1, IdDraws) ELSE UnitDraws) :
         \E s \in Rand(r, IF seeded THEN 2 ELSE 1, UnitDraws) :
           /\ generated # <<>> => t >= generated[Len(generated)].now
           /\ invocation' = [running |-> TRUE, traceID |-> id, now |-> t,
                             seconds |-> Intn(s, 3600),
                             resourceSpans |-> <<>>]
           /\ rng' = Read(r, IF seeded THEN << id, s >> ELSE << s >>)
  /\ stack' = << Call(treeConfig.Root, 0, FALSE) >>
  /\ treeSpans' = <<>>
  /\ IF treeConfig.Seed # 0
     THEN /\ valuePools' = <<>>
          /\ cardinality' = <<>>
          /\ resets' = resets + 1
     ELSE UNCHANGED << valuePools, cardinality, resets >>
  /\ UNCHANGED << wvars, lvars, mvars, ivars, nvars, dvars, cardConfig,
                  getValue, returned, arrays, treeConfig, pending, generated >>

(* generateSpansFromNode from its entry to NormalizeWeights: the span is   *)
(* built and appended to spansByService                                    *)
EnterNode ==
  /\ stack # <<>>
  /\ Top.phase = "enter"
  /\ LET f == Top
         node == treeConfig.Nodes[f.node]
         root == f.parent = 0
         first == IF root THEN 1 ELSE 2
     IN  \E z \in Rand(rng, 1, DurationDraws(node.Duration)) :
         \E d \in (IF root THEN {0} ELSE Rand(rng, 2, UnitDraws)) :
         \E e \in Rand(rng, first + 1, ErrorDraws(node)) :
         \E m \in (IF e < node.ErrorRate THEN Rand(rng, first + 2, PickDraws)
                   ELSE {0}) :
         \E id \in Rand(rng, first + (IF e < node.ErrorRate THEN 3 ELSE 2),
                        IdDraws) :
         \E tags \in MapOrders(node.Tags) :
           LET hasError == e < node.ErrorRate
               parentStart == IF root THEN 0 ELSE treeSpans[f.parent].Start
               parentEnd == IF root THEN 0 ELSE treeSpans[f.parent].End
               startTime ==
                 IF root THEN 0
                 ELSE parentStart + RandomDelay(d, 3, parentEnd - parentStart)
               maxEnd == parentEnd - 10 * NsPerMs
               full == calculateDurationFromConfig(node.Duration, z)
               duration ==
                 IF root \/ startTime + full <= maxEnd THEN full
                 ELSE IF maxEnd - startTime < NsPerMs THEN NsPerMs
                 ELSE maxEnd - startTime
               span ==
                 [Node |-> f.node, Parent |-> f.parent,
                  Parallel |-> f.parallel,
                  SpanId |-> id,
                  ParentSpanId |-> IF root THEN <<>>
                                   ELSE << treeSpans[f.parent].SpanId >>,
                  Start |-> startTime, End |-> startTime + duration,
                  Code |-> IF hasError THEN "ERROR" ELSE "OK",
                  Message |-> IF hasError THEN errorMessages[Intn(m, 10) + 1]
                              ELSE "",
                  Attributes |-> << << "service.name", node.Service >> >>
                                   \o tags]
               children == NormalizeWeights(node.Children)
           IN  /\ treeSpans' = Append(treeSpans, span)
               /\ treeConfig' =
                    [treeConfig EXCEPT !.Nodes[f.node].Children = children]
               /\ stack' =
                    SetTop([f EXCEPT
                              !.phase = IF children = <<>> THEN "children"
                                        ELSE "select",
                              !.span = Len(treeSpans) + 1,
                              !.currentTime = startTime])
               /\ rng' = Read(rng, << z >>
                                   \o (IF root THEN <<>> ELSE << d >>)
                                   \o << e >>
                                   \o (IF hasError THEN << m >> ELSE <<>>)
                                   \o << id >>)
  /\ UNCHANGED << wvars, lvars, mvars, ivars, nvars, cvars, dvars, invocation, pending, generated >>

(* one turn of the loop of SelectChildren; after the last edge, the split  *)
(* into the sequential children and then the parallel ones                 *)
SelectEdge ==
  /\ stack # <<>>
  /\ Top.phase = "select"
  /\ LET f == Top
         edge == treeConfig.Nodes[f.node].Children[f.k]
     IN  \E u \in Rand(rng, 1, UnitDraws) :
         \E c \in (IF ReadsCount(edge, u) THEN Rand(rng, 2, UnitDraws)
                   ELSE {0}) :
           LET selected ==
                 f.selected \o [j \in 1..SelectCount(edge, u, c) |-> edge]
           IN  /\ stack' =
                    SetTop(IF f.k < Len(treeConfig.Nodes[f.node].Children)
                           THEN [f EXCEPT !.k = f.k + 1,
                                          !.selected = selected]
                           ELSE [f EXCEPT
                                   !.phase = "children",
                                   !.selected =
                                      filterParallel(selected, FALSE)
                                        \o filterParallel(selected, TRUE)])
               /\ rng' = Read(rng, << u >> \o (IF ReadsCount(edge, u)
                                                THEN << c >> ELSE <<>>))
  /\ UNCHANGED << wvars, lvars, mvars, ivars, nvars, cvars, dvars, treeConfig, treeSpans, invocation, pending,
                  generated >>

(* the next turn of the sequential loop or of the parallel loop, up to the *)
(* recursive call; a parallel child with no time left is skipped           *)
CallChild ==
  /\ stack # <<>>
  /\ Top.phase = "children"
  /\ Top.i <= Len(Top.selected)
  /\ LET f == Top
         childEdge == f.selected[f.i]
         availableTime == treeSpans[f.span].End - f.currentTime
     IN  IF ~childEdge.Parallel
         THEN /\ stack' = Append(stack, Call(childEdge.Node, f.span, FALSE))
              /\ rng' = rng
         ELSE IF availableTime > 0
         THEN \E u \in Rand(rng, 1, UnitDraws) :
                /\ stack' = Append(stack, Call(childEdge.Node, f.span, TRUE))
                /\ rng' = Read(rng, << u >>)
         ELSE /\ stack' = SetTop([f EXCEPT !.i = f.i + 1])
              /\ rng' = rng
  /\ UNCHANGED << wvars, lvars, mvars, ivars, nvars, cvars, dvars, treeConfig, treeSpans, invocation, pending,
                  generated >>

(* return span, and what the caller does with it: the sequential loop      *)
(* moves currentTime, the parallel loop propagates the error               *)
ReturnFromNode ==
  /\ stack # <<>>
  /\ Top.phase = "children"
  /\ Top.i > Len(Top.selected)
  /\ IF Len(stack) = 1
     THEN /\ stack' = <<>>
          /\ pending' = { treeConfig.Nodes[treeSpans[i].Node].Service :
                            i \in DOMAIN treeSpans }
          /\ treeSpans' = treeSpans
     ELSE LET caller == stack[Len(stack) - 1]
              childEdge == caller.selected[caller.i]
              childSpan == treeSpans[Top.span]
              failed == /\ childEdge.Parallel
                        /\ childSpan.Code = "ERROR"
                        /\ treeConfig.Nodes[childEdge.Node].ErrorPropagates
          IN  /\ stack' =
                   [SubSeq(stack, 1, Len(stack) - 1) EXCEPT
                      ![Len(stack) - 1] =
                         [caller EXCEPT
                            !.i = caller.i + 1,
                            !.currentTime =
                               IF ~childEdge.Parallel /\ childSpan.End > @
                               THEN childSpan.End ELSE @]]
              /\ treeSpans' =
                   IF failed
                   THEN [treeSpans EXCEPT
                           ![caller.span].Code = "ERROR",
                           ![caller.span].Message =
                              IF @ = "" THEN "child span failed" ELSE @]
                   ELSE treeSpans
              /\ pending' = pending
  /\ UNCHANGED << wvars, lvars, mvars, ivars, nvars, cvars, dvars, treeConfig, rng, invocation,
                  generated >>

(* a span as spanProtoToPtrace writes it: its times are traceStartTime,    *)
(* now less the seconds taken off, plus the nanoseconds of the span        *)
Written(span) ==
  [SpanId |-> span.SpanId, ParentSpanId |-> span.ParentSpanId,
   Start |-> [s |-> 0 - invocation.seconds, ns |-> invocation.now + span.Start],
   End |-> [s |-> 0 - invocation.seconds, ns |-> invocation.now + span.End],
   Code |-> span.Code, Message |-> span.Message,
   Attributes |-> span.Attributes]

(* generateResourceAttributes: the attributes, as a set, from the values   *)
(* read, of which the three of the pod are read only when k8s < 0.7        *)
generateResourceAttributes(version, host, k8s, pod, namespace, container, env) ==
  LET versions == << "1.0.0", "1.1.0", "1.2.0", "2.0.0" >>
      hosts == << "host-01", "host-02", "host-03", "pod-abc123", "pod-def456" >>
      pods == << "pod-abc123", "pod-def456", "pod-ghi789" >>
      namespaces == << "production", "staging", "default" >>
      containers == << "app", "sidecar", "init" >>
      envs == << "production", "staging", "development" >>
  IN  { << "service.version", versions[Intn(version, 4) + 1] >>,
        << "host.name", hosts[Intn(host, 5) + 1] >>,
        << "deployment.environment", envs[Intn(env, 3) + 1] >> }
      \cup (IF k8s < 7
            THEN { << "k8s.pod.name", pods[Intn(pod, 3) + 1] >>,
                   << "k8s.namespace.name", namespaces[Intn(namespace, 3) + 1] >>,
                   << "k8s.container.name", containers[Intn(container, 3) + 1] >> }
            ELSE {})

(* one turn of the range over spansByService, in whatever order the map    *)
(* gives; after the last one GenerateTraceFromTree returns traces          *)
RangeSpansByService ==
  /\ invocation.running
  /\ stack = <<>>
  /\ \E serviceName \in pending :
     \E version \in Rand(rng, 1, PickDraws) :
     \E host \in Rand(rng, 2, PickDraws) :
     \E k8s \in Rand(rng, 3, UnitDraws) :
     \E pod \in (IF k8s < 7 THEN Rand(rng, 4, PickDraws) ELSE {0}) :
     \E namespace \in (IF k8s < 7 THEN Rand(rng, 5, PickDraws) ELSE {0}) :
     \E container \in (IF k8s < 7 THEN Rand(rng, 6, PickDraws) ELSE {0}) :
     \E env \in Rand(rng, IF k8s < 7 THEN 7 ELSE 4, PickDraws) :
       LET rs ==
             [Resource |->
                generateResourceAttributes(version, host, k8s, pod, namespace,
                                           container, env)
                  \cup {<< "service.name", serviceName >>},
              Spans |->
                [i \in DOMAIN
                     SelectSeq(treeSpans, LAMBDA sp :
                       treeConfig.Nodes[sp.Node].Service = serviceName) |->
                   Written(SelectSeq(treeSpans, LAMBDA sp :
                     treeConfig.Nodes[sp.Node].Service = serviceName)[i])]]
           groups == Append(invocation.resourceSpans, rs)
       IN  /\ pending' = pending \ {serviceName}
           /\ rng' = Read(rng, << version, host, k8s >>
                               \o (IF k8s < 7 THEN << pod, namespace, container >>
                                   ELSE <<>>)
                               \o << env >>)
           /\ IF pending = {serviceName}
              THEN /\ generated' =
                        Append(generated,
                               [now |-> invocation.now,
                                trace |->
                                  [traceID |-> invocation.traceID,
                                   resourceSpans |-> groups]])
                   /\ invocation' = [invocation EXCEPT !.running = FALSE,
                                       !.resourceSpans = groups]
              ELSE /\ generated' = generated
                   /\ invocation' =
                        [invocation EXCEPT !.resourceSpans = groups]
  /\ UNCHANGED << wvars, lvars, mvars, ivars, nvars, cvars, dvars, treeConfig, stack, treeSpans >>

(***************************************************************************)
(* NormalizeWeights and SelectChildren on a list of edges of its own       *)
(***************************************************************************)
MaxNormalizations == 2

MaxEdges == 3

(* declared weights, in tenths; an edge that declares none has weight 0 *)
WeightTenths == {-1, 0, 1, 3, 10}

WeightLists ==
  UNION { [1..n -> WeightTenths] : n \in 1..MaxEdges }

NoPicks == [lists |-> <<>>, selected |-> {}, reads |-> <<>>]

InitEdges(ws) ==
  /\ edges = [i \in DOMAIN ws |-> TraceTreeEdge(ws[i], FALSE, NoCount, 1)]
  /\ picks = NoPicks

(* NormalizeWeights(edges), as every visit of the node that holds them does *)
Normalize ==
  /\ Len(picks.lists) < MaxNormalizations
  /\ edges' = NormalizeWeights(edges)
  /\ picks' = [picks EXCEPT !.lists = Append(@, edges')]
  /\ UNCHANGED << wvars, lvars, mvars, ivars, tvars, cvars, dvars >>

(* SelectChildren(edges, rng) after NormalizeWeights, for any values read  *)
SelectChildren ==
  /\ picks.lists # <<>>
  /\ \E us \in [DOMAIN edges -> UnitDraws] :
       picks' = [picks EXCEPT
                   !.selected = { i \in DOMAIN edges :
                                    SelectCount(edges[i], us[i], 0) > 0 },
                   !.reads = us]
  /\ UNCHANGED << wvars, lvars, mvars, ivars, tvars, cvars, dvars, edges >>

(***************************************************************************)
(* CardinalityManager: the value pools of the global manager, and two      *)
(* callers of GetValue, each with the cardConfig of its own script.  The   *)
(* part of GetValue under the read lock is one step and the part under the *)
(* write lock another.                                                     *)
(***************************************************************************)
MaxRequests == 2

MaxCardinality == 3

Callers == {"g1", "g2"}

CardinalityAttributes == {"priority", "canary"}

DefaultCardinality(attrName) ==
  CASE attrName = "priority" -> 3
    [] attrName = "canary" -> 2
    [] OTHER -> 50

(* generateValuePool for the attributes above, for pools of no more than   *)
(* four values, which need no fmt.Sprintf                                  *)
generateValuePool(attrName, size) ==
  LET priorities == << "low", "medium", "high", "critical" >>
      canaries == << "true", "false" >>
  IN  [i \in 1..size |->
         IF attrName = "priority" THEN priorities[i]
         ELSE IF i <= Len(canaries) THEN canaries[i]
         ELSE "false"]

(* the cardConfig maps a script can pass for attribute attrName *)
CardConfigs(attrName) ==
  {<<>>} \cup { attrName :> n : n \in 1..MaxCardinality }

MaxResets == 1

(* a nil slice *)
NilSlice == [array |-> 0, len |-> 0]

NoGetValue ==
  [pc |-> "idle", attrName |-> "", cardinality |-> 0, pool |-> NilSlice,
   poolLen |-> 0]

InitCardinality(configs) ==
  /\ cardConfig = configs
  /\ valuePools = <<>>
  /\ cardinality = <<>>
  /\ getValue = [g \in Callers |-> NoGetValue]
  /\ returned = [g \in Callers |-> <<>>]
  /\ arrays = <<>>
  /\ resets = 0

(* pool[i] for the slice pool: the element of its backing array, or the    *)
(* panic of an index that is not below the length of the slice             *)
SliceIndex(pool, i) ==
  IF i >= 0 /\ i < pool.len /\ i < Len(arrays[pool.array].values)
  THEN arrays[pool.array].values[i + 1]
  ELSE "index out of range"

(* GetValue under the read lock: pool, exists and poolLen are read, and    *)
(* the caller goes on to the fast path or to the write lock                *)
GetValueRLock(g) ==
  /\ getValue[g].pc = "idle"
  /\ Len(returned[g]) < MaxRequests
  /\ \E attrName \in CardinalityAttributes :
       LET n == IF attrName \in DOMAIN cardConfig[g]
                THEN cardConfig[g][attrName]
                ELSE DefaultCardinality(attrName)
           exists == attrName \in DOMAIN valuePools
           pool == IF exists THEN valuePools[attrName] ELSE NilSlice
       IN  getValue' =
             [getValue EXCEPT
                ![g] = [pc |-> IF exists /\ pool.len >= n THEN "index"
                               ELSE "lock",
                        attrName |-> attrName, cardinality |-> n,
                        pool |-> pool, poolLen |-> pool.len]]
  /\ UNCHANGED << wvars, lvars, mvars, ivars, tvars, nvars, dvars, cardConfig,
                  valuePools, cardinality, returned, arrays, resets >>

(* the fast path of GetValue, after RUnlock: pool[rng.Intn(poolLen)] on    *)
(* the slice it read                                                       *)
GetValueIndex(g) ==
  /\ getValue[g].pc = "index"
  /\ \E i \in 0..(getValue[g].poolLen - 1) :
       returned' =
         [returned EXCEPT
            ![g] = Append(@, [attrName |-> getValue[g].attrName,
                              value |-> SliceIndex(getValue[g].pool, i)])]
  /\ getValue' = [getValue EXCEPT ![g] = NoGetValue]
  /\ UNCHANGED << wvars, lvars, mvars, ivars, tvars, nvars, dvars, cardConfig,
                  valuePools, cardinality, arrays, resets >>

(* GetValue under the write lock: the second look at the pool, the new     *)
(* pool in an array of its own if it is still too short, and the value     *)
(* returned                                                                *)
GetValueLock(g) ==
  /\ getValue[g].pc = "lock"
  /\ LET attrName == getValue[g].attrName
         exists == attrName \in DOMAIN valuePools
         generate == ~exists \/ valuePools[attrName].len < getValue[g].cardinality
         values == generateValuePool(attrName, getValue[g].cardinality)
         grown == Append(arrays, [attrName |-> attrName, values |-> values,
                                  epoch |-> resets])
         pool == IF generate
                 THEN [array |-> Len(grown), len |-> Len(values)]
                 ELSE valuePools[attrName]
         backing == IF generate THEN values
                    ELSE arrays[pool.array].values
     IN  /\ arrays' = IF generate THEN grown ELSE arrays
         /\ valuePools' = IF generate THEN (attrName :> pool) @@ valuePools
                          ELSE valuePools
         /\ cardinality' = IF generate
                           THEN (attrName :> pool.len) @@ cardinality
                           ELSE cardinality
         /\ \E i \in 0..(pool.len - 1) :
              returned' =
                [returned EXCEPT
                   ![g] = Append(@, [attrName |-> attrName,
                                     value |-> backing[i + 1]])]
  /\ getValue' = [getValue EXCEPT ![g] = NoGetValue]
  /\ UNCHANGED << wvars, lvars, mvars, ivars, tvars, nvars, dvars, cardConfig,
                  resets >>

(* ResetPools that empties the arrays of the pools where they are *)
ResetPoolsInPlace ==
  /\ resets < MaxResets
  /\ arrays' = [id \in DOMAIN arrays |->
                  [arrays[id] EXCEPT !.values = [i \in DOMAIN @ |-> ""]]]
  /\ valuePools' = <<>>
  /\ cardinality' = <<>>
  /\ resets' = resets + 1
  /\ UNCHANGED << wvars, lvars, mvars, ivars, tvars, nvars, dvars, cardConfig,
                  getValue, returned >>

(* ResetPools, under the write lock: both maps are replaced by new ones;   *)
(* GenerateTraceFromTree calls it for a seeded tree                        *)
ResetPools ==
  /\ resets < MaxResets
  /\ valuePools' = <<>>
  /\ cardinality' = <<>>
  /\ resets' = resets + 1
  /\ UNCHANGED << wvars, lvars, mvars, ivars, tvars, nvars, dvars, cardConfig,
                  getValue, returned, arrays >>

GetCardinalityStats == cardinality

(***************************************************************************)
(* GenerateTrace without a trace tree and without workflows: one resource  *)
(* and a span tree of variable fan-out.  A span of spansMap is kept with   *)
(* what the tree building and the service attribute need: its depth, its   *)
(* children, maxChildren and the serviceName it was built with.            *)
(***************************************************************************)
MaxSpansPerTrace == 3

generateServiceName(index) ==
  LET services == << "frontend", "backend", "database", "cache", "auth",
                     "payment", "shipping", "analytics", "notification",
                     "gateway" >>
  IN  services[index + 1]

(* int(x / y) for y > 0: the quotient rounded toward zero *)
TruncDiv(x, y) == IF x >= 0 THEN x \div y ELSE 0 - ((0 - x) \div y)

(* calculateMaxChildren; FanOutVariance is in tenths, u is rng.Float64()   *)
calculateMaxChildren(depth, c, u) ==
  LET maxFanOut == IF c.MaxFanOut <= 0 THEN 5 ELSE c.MaxFanOut
      byDepth == IF depth > 0
                 THEN (IF maxFanOut - depth < 1 THEN 1 ELSE maxFanOut - depth)
                 ELSE maxFanOut
      variance == IF c.FanOutVariance < 0 THEN 0
                  ELSE IF c.FanOutVariance > 10 THEN 10
                  ELSE c.FanOutVariance
      fanOut == byDepth + TruncDiv(byDepth * variance * (2 * u - 10), 100)
  IN  IF fanOut < 1 THEN 1 ELSE IF fanOut > maxFanOut THEN maxFanOut ELSE fanOut

(* the Config of a script: UseTraceTree and UseWorkflows are off *)
GeneratorConfigs ==
  { [Services |-> sv, SpanDepth |-> dp, SpansPerTrace |-> n,
     MaxFanOut |-> 2, FanOutVariance |-> 10, ResourceAttributes |-> ra] :
      sv \in 1..2, dp \in 1..2, n \in 1..MaxSpansPerTrace,
      ra \in { {}, {<< "service.name", "checkout" >>},
               {<< "team", "payments" >>} } }

InitGenerator(c) ==
  /\ config = c
  /\ spansMap = <<>>
  /\ serviceIndex = 0
  /\ resourceSpans = [phase |-> "idle", Resource |-> {}, Spans |-> <<>>]

(* the spans selectParentWithFanOut collects and findAvailableParent       *)
(* looks for: any of them can be the one returned, by the value read and   *)
(* the order of the map                                                    *)
Available ==
  { i \in DOMAIN spansMap :
      /\ spansMap[i].children < spansMap[i].maxChildren
      /\ spansMap[i].depth < config.SpanDepth }

(* GenerateTrace down to the root span *)
GenerateTrace ==
  /\ resourceSpans.phase = "idle"
  /\ \E version \in PickDraws, host \in PickDraws, k8s \in UnitDraws,
        pod \in PickDraws, namespace \in PickDraws, container \in PickDraws,
        env \in PickDraws, u \in UnitDraws :
       /\ resourceSpans' =
            [phase |-> "loop",
             Resource |->
               IF config.ResourceAttributes = {}
               THEN generateResourceAttributes(version, host, k8s, pod,
                                               namespace, container, env)
                      \cup {<< "service.name", generateServiceName(0) >>}
               ELSE config.ResourceAttributes,
             Spans |-> <<>>]
       /\ spansMap' =
            << [index |-> 0, depth |-> 0, children |-> 0,
                maxChildren |-> calculateMaxChildren(0, config, u),
                serviceName |-> generateServiceName(0)] >>
  /\ serviceIndex' = 0
  /\ UNCHANGED << wvars, lvars, mvars, ivars, tvars, nvars, cvars, config >>

(* one turn of the loop that adds a child span *)
AddChildSpan ==
  /\ resourceSpans.phase = "loop"
  /\ Len(spansMap) < config.SpansPerTrace
  /\ \E parent \in Available, u \in UnitDraws :
       LET next == (serviceIndex + 1) % config.Services
       IN  /\ serviceIndex' = next
           /\ spansMap' =
                Append([spansMap EXCEPT ![parent].children = @ + 1],
                       [index |-> Len(spansMap),
                        depth |-> spansMap[parent].depth + 1,
                        children |-> 0,
                        maxChildren |->
                          calculateMaxChildren(spansMap[parent].depth + 1,
                                               config, u),
                        serviceName |-> generateServiceName(next)])
  /\ UNCHANGED << wvars, lvars, mvars, ivars, tvars, nvars, cvars, config, resourceSpans >>

(* the loop ends, with enough spans or no parent left, and the spans of    *)
(* spansMap are written under the one resource in the order of the map     *)
ReturnTraces ==
  /\ resourceSpans.phase = "loop"
  /\ Len(spansMap) >= config.SpansPerTrace \/ Available = {}
  /\ \E order \in MapOrders(DOMAIN spansMap) :
       resourceSpans' =
         [resourceSpans EXCEPT
            !.phase = "done",
            !.Spans =
               [i \in DOMAIN order |->
                  [Attributes |->
                     << << "service.name", spansMap[order[i]].serviceName >> >>,
                   depth |-> spansMap[order[i]].depth]]]
  /\ UNCHANGED << wvars, lvars, mvars, ivars, tvars, nvars, cvars, config, spansMap,
                  serviceIndex >>

(***************************************************************************)
(* The functions the module exports to a script (ModuleInstance.Exports).  *)
(* A script object is a record with the keys the script wrote; the value   *)
(* of a flag carries its JavaScript type, which the type assertions read.  *)
(***************************************************************************)
MaxModuleCalls == 2

Bool(b) == [type |-> "bool", b |-> b, s |-> ""]

Str(s) == [type |-> "string", b |-> FALSE, s |-> s]

NilTree == [nil |-> TRUE, Root |-> ""]

(* generator.DefaultConfig: the fields Validate and the choice of the      *)
(* generation path read; ErrorRate in tenths                               *)
DefaultConfig ==
  [Services |-> 3, SpansPerTrace |-> 10, ErrorRate |-> 0,
   UseWorkflows |-> FALSE, UseTraceTree |-> FALSE,
   TraceTreeConfig |-> NilTree]

(* Config.Validate: the first complaint, or "nil" *)
Validate(c) ==
  IF c.Services <= 0 THEN "services must be > 0"
  ELSE IF c.SpansPerTrace <= 0 THEN "spansPerTrace must be > 0"
  ELSE IF c.ErrorRate < 0 \/ c.ErrorRate > 10
  THEN "errorRate must be in range [0.0, 1.0]"
  ELSE IF c.UseWorkflows /\ c.UseTraceTree
  THEN "useWorkflows and useTraceTree are mutually exclusive"
  ELSE IF c.UseTraceTree /\ c.TraceTreeConfig.nil
  THEN "traceTreeConfig is required when useTraceTree is true"
  ELSE "nil"

(* parseTraceTreeNode: the service is required *)
parseTraceTreeNode(jsObj) ==
  IF "service" \in DOMAIN jsObj
  THEN [err |-> "nil", Service |-> jsObj.service]
  ELSE [err |-> "service is required for node", Service |-> ""]

(* parseTraceTree: the root is required and has to parse *)
parseTraceTree(jsObj) ==
  IF "root" \notin DOMAIN jsObj
  THEN [err |-> "root node is required", config |-> NilTree]
  ELSE IF parseTraceTreeNode(jsObj.root).err # "nil"
  THEN [err |-> "failed to parse root node", config |-> NilTree]
  ELSE [err |-> "nil",
        config |-> [nil |-> FALSE,
                    Root |-> parseTraceTreeNode(jsObj.root).Service]]

(* one key of populateConfigFromMap: the value the script gave when the    *)
(* key is there and passes the test, else the value gcfg holds              *)
Given(script, key, ok(_), old) ==
  IF key \in DOMAIN script /\ ok(script[key]) THEN script[key] ELSE old

(* populateConfigFromMap: what gcfg holds afterwards.  A traceTree that     *)
(* does not parse leaves UseTraceTree and TraceTreeConfig as they were     *)
populateConfigFromMap(gcfg, script) ==
  LET Positive(v) == v > 0
      Rate(v) == v >= 0 /\ v <= 10
      IsBool(v) == v.type = "bool"
      tree == IF /\ "useTraceTree" \in DOMAIN script
                 /\ IsBool(script.useTraceTree) /\ script.useTraceTree.b
                 /\ "traceTree" \in DOMAIN script
              THEN parseTraceTree(script.traceTree)
              ELSE [err |-> "skipped", config |-> NilTree]
  IN  [Services |-> Given(script, "services", Positive, gcfg.Services),
       SpansPerTrace |->
         Given(script, "spansPerTrace", Positive, gcfg.SpansPerTrace),
       ErrorRate |-> Given(script, "errorRate", Rate, gcfg.ErrorRate),
       UseWorkflows |->
         IF "useWorkflows" \in DOMAIN script /\ IsBool(script.useWorkflows)
         THEN script.useWorkflows.b ELSE gcfg.UseWorkflows,
       UseTraceTree |-> IF tree.err = "nil" THEN TRUE ELSE gcfg.UseTraceTree,
       TraceTreeConfig |->
         IF tree.err = "nil" THEN tree.config ELSE gcfg.TraceTreeConfig]

(* generator.GenerateTrace: the path it takes for script *)
GenerateTracePath(c) ==
  IF c.UseTraceTree /\ ~c.TraceTreeConfig.nil THEN "tree"
  ELSE IF c.UseWorkflows THEN "workflow"
  ELSE "default"

(* the traceTree objects of the scripts: one that parses, one without a    *)
(* root and one whose root names no service                                *)
TraceTreeObjects ==
  { [seed |-> 42, root |-> [service |-> "frontend"]],
    [seed |-> 42],
    [root |-> [operation |-> "GET /"]] }

(* the trace configs of the scripts *)
TraceConfigs ==
  { [services |-> 2],
    [services |-> 0, errorRate |-> 15],
    [useWorkflows |-> Bool(TRUE)],
    [useWorkflows |-> Str("true")],
    [useTraceTree |-> Bool(TRUE)] }
  \cup { [useTraceTree |-> Bool(TRUE), traceTree |-> t] :
           t \in TraceTreeObjects }
  \cup { [useTraceTree |-> Bool(TRUE), useWorkflows |-> Bool(TRUE),
          traceTree |-> t] : t \in TraceTreeObjects }

(* the workload configs of the scripts: traceFetchProbability in tenths *)
WorkloadScripts ==
  { ScriptConfig,
    [TraceFetchProbability |-> 15] @@ ScriptConfig,
    [TraceFetchProbability |-> 0 - 1] @@ ScriptConfig,
    [TimeBuckets |-> << [Name |-> "recent", AgeStart |-> <<"x">>,
                         AgeEnd |-> <<"1", "h">>] >>] @@ ScriptConfig,
    [TimeBuckets |-> << [Name |-> "recent", AgeStart |-> <<"0", "m">>,
                         AgeEnd |-> <<"1", "h">>] >>,
     ExecutionPlan |-> << [QueryName |-> "q1", BucketName |-> "recent",
                           Weight |-> 1] >>] @@ ScriptConfig }

(* what a call returned: the error, and for the generator the Config it    *)
(* ran with and the path GenerateTrace took                                *)
Returns(fn, script, gcfg, error, tracePath) ==
  [fn |-> fn, config |-> script, cfg |-> gcfg, err |-> error,
   path |-> tracePath]

(* ModuleInstance.generateTrace *)
generateTrace ==
  /\ Len(moduleCalls) < MaxModuleCalls
  /\ \E script \in TraceConfigs :
       LET gcfg == populateConfigFromMap(DefaultConfig, script)
       IN  moduleCalls' =
             Append(moduleCalls,
                    Returns("generateTrace", script, gcfg, "nil",
                            GenerateTracePath(gcfg)))
  /\ UNCHANGED << wvars, lvars, tvars, nvars, cvars, dvars, ivars >>

(* ModuleInstance.generateBatch: script is the script's traceConfig, and   *)
(* the script gave targetSizeBytes or did not                              *)
generateBatch ==
  /\ Len(moduleCalls) < MaxModuleCalls
  /\ \E script \in TraceConfigs, targetSizeBytes \in {0, 1000} :
       LET gcfg == populateConfigFromMap(DefaultConfig, script)
           traceConfig ==
             IF /\ "useWorkflows" \in DOMAIN script
                /\ script.useWorkflows.type = "string"
                /\ script.useWorkflows.s = "true"
             THEN [gcfg EXCEPT !.UseWorkflows = TRUE]
             ELSE gcfg
       IN  moduleCalls' =
             Append(moduleCalls,
                    IF targetSizeBytes > 0
                    THEN Returns("generateBatch", script, traceConfig, "nil",
                                 GenerateTracePath(traceConfig))
                    ELSE Returns("generateBatch", script, DefaultConfig,
                                 "targetSizeBytes is required", "none"))
  /\ UNCHANGED << wvars, lvars, tvars, nvars, cvars, dvars, ivars >>

(* ModuleInstance.estimateTraceSize: EstimateTraceSizeFromConfig generates *)
(* its samples with GenerateTrace                                          *)
estimateTraceSize ==
  /\ Len(moduleCalls) < MaxModuleCalls
  /\ \E script \in TraceConfigs :
       LET gcfg == populateConfigFromMap(DefaultConfig, script)
       IN  moduleCalls' =
             Append(moduleCalls,
                    Returns("estimateTraceSize", script, gcfg, "nil",
                            GenerateTracePath(gcfg)))
  /\ UNCHANGED << wvars, lvars, tvars, nvars, cvars, dvars, ivars >>

(* ModuleInstance.calculateThroughput: CalculateThroughput estimates the   *)
(* trace size the same way                                                 *)
calculateThroughput ==
  /\ Len(moduleCalls) < MaxModuleCalls
  /\ \E script \in TraceConfigs :
       LET gcfg == populateConfigFromMap(DefaultConfig, script)
       IN  moduleCalls' =
             Append(moduleCalls,
                    Returns("calculateThroughput", script, gcfg, "nil",
                            GenerateTracePath(gcfg)))
  /\ UNCHANGED << wvars, lvars, tvars, nvars, cvars, dvars, ivars >>

(* ModuleInstance.createQueryWorkload: CreateQueryWorkload returns the     *)
(* workload and a nil error, always                                        *)
createQueryWorkload ==
  /\ Len(moduleCalls) < MaxModuleCalls
  /\ \E workloadConfig \in WorkloadScripts :
       moduleCalls' =
         Append(moduleCalls,
                Returns("createQueryWorkload", workloadConfig,
                        CreateQueryWorkload(workloadConfig), "nil", "none"))
  /\ UNCHANGED << wvars, lvars, tvars, nvars, cvars, dvars, ivars >>

(***************************************************************************)
(* IngestClient.pushBatchWithRateLimitInternal.  A trace of the batch is   *)
(* the number estimateTraceSize gives for it.  The goroutine that pushes   *)
(* is the goroutine of the Wait frame of the same name.  What ExportBatch  *)
(* returns is for the exporter to decide.                                  *)
(***************************************************************************)
MaxPushCalls == 2

Batches == { <<>>, << 1, 2 >> }

NoPush ==
  [pc |-> "idle", calls |-> 0, traces |-> <<>>, totalSize |-> 0,
   limiter |-> FALSE,
   ctxDone |-> FALSE, err |-> "nil", waitErr |-> "nil", exports |-> 0,
   acquired |-> 0, exportErr |-> "nil", samples |-> 0]

(* the loop that adds up estimateTraceSize over the batch *)
RECURSIVE TotalSize(_)
TotalSize(batch) ==
  IF batch = <<>> THEN 0 ELSE Head(batch) + TotalSize(Tail(batch))

(* RecordIngestionWithContext for every outcome of the export *)
RecordIngestionAlways(exportErr) == 1

(* the calls of RecordIngestionWithContext the push makes after an export  *)
(* that returned exportErr                                                 *)
RecordIngestionWithContext(exportErr) == IF exportErr = "nil" THEN 1 ELSE 0

(* the pushes started so far by the goroutines gs *)
RECURSIVE PushCalls(_)
PushCalls(gs) ==
  IF gs = {} THEN 0
  ELSE LET g == CHOOSE x \in gs : TRUE
       IN  push[g].calls + PushCalls(gs \ {g})

(* the push is called: the sizes are added up and, with a limiter, Wait is *)
(* called with the total; bytes <= 0 makes Wait return at once             *)
PushBatchWithRateLimit(g) ==
  /\ push[g].pc \in {"idle", "done"}
  /\ PushCalls(Waiters) < MaxPushCalls
  /\ \E batch \in Batches, limiter \in BOOLEAN, done \in BOOLEAN :
       LET totalSize == TotalSize(batch)
       IN  /\ push' = [push EXCEPT ![g] =
                [NoPush EXCEPT !.calls = push[g].calls + 1,
                               !.traces = batch, !.totalSize = totalSize,
                               !.limiter = limiter, !.ctxDone = done,
                               !.pc = IF limiter THEN "wait" ELSE "export"]]
           /\ IF limiter
              THEN /\ wait' = [wait EXCEPT ![g] =
                        [NoWait EXCEPT !.n = totalSize, !.bytes = totalSize,
                                       !.ctxDone = done,
                                       !.pc = IF totalSize <= 0 THEN "returned"
                                              ELSE "lock"]]
              ELSE UNCHANGED wait
  /\ UNCHANGED << wvars, tvars, nvars, cvars, dvars, mvars, byteLimiter,
                  limiters, mu, setRate, lcalls, meter >>

(* the caller's context is cancelled while the push is under way *)
PushCancel(g) ==
  /\ push[g].pc \in {"wait", "export"}
  /\ ~push[g].ctxDone
  /\ push' = [push EXCEPT ![g].ctxDone = TRUE]
  /\ wait' = IF push[g].pc = "wait" /\ wait[g].pc # "returned"
             THEN [wait EXCEPT ![g].ctxDone = TRUE]
             ELSE wait
  /\ UNCHANGED << wvars, tvars, nvars, cvars, dvars, mvars, byteLimiter,
                  limiters, mu, setRate, lcalls, meter >>

(* limiter.Wait has returned: its error ends the push, wrapped *)
PushAfterWait(g) ==
  /\ push[g].pc = "wait"
  /\ wait[g].pc = "returned"
  /\ push' = [push EXCEPT
       ![g].waitErr = wait[g].err,
       ![g].err = IF wait[g].err # "nil" THEN "rate_limiter_wait_failed"
                  ELSE @,
       ![g].pc = IF wait[g].err # "nil" THEN "done" ELSE "export"]
  /\ UNCHANGED << wvars, lvars, tvars, nvars, cvars, dvars, mvars >>

(* c.exporter.ExportBatch, the metrics of a success, and return err *)
ExportBatch(g) ==
  /\ push[g].pc = "export"
  /\ \E e \in {"nil", "export_failed"} :
       push' = [push EXCEPT
         ![g].exports = @ + 1,
         ![g].acquired = IF push[g].limiter THEN wait[g].acquired ELSE 0,
         ![g].exportErr = e,
         ![g].samples = @ + RecordIngestionWithContext(e),
         ![g].err = e,
         ![g].pc = "done"]
  /\ UNCHANGED << wvars, lvars, tvars, nvars, cvars, dvars, mvars >>

WorkerStep(w) ==
  \/ StartCall(w)
  \/ RateLimiterWait(w)
  \/ ApplyBackoffLock(w)
  \/ ApplyBackoffDelay(w)
  \/ ApplyBackoffWake(w)
  \/ SelectAndResolve(w)
  \/ Search(w)
  \/ SearchDefault(w)
  \/ ReadOldBackoff(w)
  \/ HandleLock(w)
  \/ HandleBody(w)
  \/ RecordBackoffCheck(w)
  \/ RecordBackoffValue(w)
  \/ AfterNext(w)
  \/ Fetch(w)
  \/ FetchRecord(w)

vars == << wvars, lvars, gvars >>

(* one worker on its own workload: every response and header *)
Solo ==
  [workers |-> {"w1"}, maxCalls |-> MaxCalls, statuses |-> StatusCodes,
   headers |-> RetryAfterValues]

(* two workers sharing one workload *)
Shared ==
  [workers |-> AllWorkers, maxCalls |-> MaxSharedCalls,
   statuses |-> {200, 429}, headers |-> {<<>>}]

(* a script that has called nothing yet *)
IdleModule ==
  /\ moduleCalls = <<>>
  /\ push = [g \in Waiters |-> NoPush]

(* a cardinality manager nobody asks and a default generator nobody calls *)
IdleGenerator ==
  /\ IdleModule
  /\ InitCardinality([g \in Callers |-> <<>>])
  /\ InitGenerator([Services |-> 1, SpanDepth |-> 1, SpansPerTrace |-> 1,
                    MaxFanOut |-> 2, FanOutVariance |-> 10,
                    ResourceAttributes |-> {}])

(* the limiter of a generator nobody uses, and a tree nobody generates *)
IdleLimiter ==
  /\ InitLimiter(NewByteRateLimiter(0, defaultBurstMultiplier))
  /\ InitTree([Seed |-> 0, Root |-> 1, Nodes |-> ShortParentTree])
  /\ InitEdges(<<>>)
  /\ IdleGenerator

(* two hours into the test: bucket "recent" is eligible, "old" is not *)
Init ==
  /\ \E c \in WorkloadConfigs :
       InitWorkload(c, Solo, testStartTime + 2 * HourMs)
  /\ IdleLimiter

Next ==
  \/ \E w \in AllWorkers : WorkerStep(w)
  \/ \E w \in AllWorkers : Cancel(w)
  \/ Refill

Spec == Init /\ [][Next]_vars

InitShared ==
  /\ InitWorkload(CreateQueryWorkload(ScriptConfig), Shared,
                  testStartTime + 2 * HourMs)
  /\ IdleLimiter

NextShared ==
  \/ \E w \in AllWorkers : WorkerStep(w)
  \/ Refill

SpecShared == InitShared /\ [][NextShared]_vars

(* one worker from the start of the test on, under either window jitter *)
Windows ==
  [workers |-> {"w1"}, maxCalls |-> MaxWindowCalls, statuses |-> {200, 429},
   headers |-> {<<>>}]

InitWindow ==
  /\ \E c \in WindowConfigs : InitWorkload(c, Windows, testStartTime)
  /\ IdleLimiter

NextWindow ==
  \/ \E w \in AllWorkers : WorkerStep(w)
  \/ Refill
  \/ Tick

SpecWindow == InitWindow /\ [][NextWindow]_vars

(* the byte rate limiter of a generator, and a workload nobody calls *)
InitByteLimiter ==
  /\ InitWorkload(CreateQueryWorkload(ScriptConfig), Solo, testStartTime)
  /\ \E a \in NewArguments :
       InitLimiter(NewByteRateLimiter(a.targetBytesPerSec,
                                      a.burstMultiplier))
  /\ InitTree([Seed |-> 0, Root |-> 1, Nodes |-> ShortParentTree])
  /\ InitEdges(<<>>)
  /\ IdleGenerator

NextByteLimiter ==
  \/ \E g \in Waiters :
       CallWait(g) \/ WaitLock(g) \/ WaitSnapshot(g) \/ WaitN(g)
  \/ CallSetRate
  \/ SetRateLock
  \/ SetRateStore
  \/ LimiterRefill

(* the scheduler runs every goroutine that can take a step, and time       *)
(* passes; nobody has to call Wait or SetRate                              *)
FairByteLimiter ==
  /\ \A g \in Waiters :
       WF_vars(WaitLock(g) \/ WaitSnapshot(g) \/ WaitN(g))
  /\ WF_vars(SetRateLock \/ SetRateStore)
  /\ WF_vars(LimiterRefill)

SpecByteLimiter ==
  InitByteLimiter /\ [][NextByteLimiter]_vars /\ FairByteLimiter

(* the byte rate limiter watched over a window that starts at any moment *)
NextEnvelope ==
  \/ \E g \in Waiters :
       CallWait(g) \/ WaitLock(g) \/ WaitSnapshot(g) \/ WaitN(g)
  \/ CallSetRate
  \/ SetRateLock
  \/ SetRateStore
  \/ LimiterRefill
  \/ StartWindow

SpecEnvelope == InitByteLimiter /\ [][NextEnvelope]_vars

(* the tree generator invoked from a script, seeded or not *)
InitTraceTree ==
  /\ InitWorkload(CreateQueryWorkload(ScriptConfig), Solo, testStartTime)
  /\ InitLimiter(NewByteRateLimiter(0, defaultBurstMultiplier))
  /\ \E c \in TreeConfigs : InitTree(c)
  /\ InitEdges(<<>>)
  /\ IdleGenerator

NextTraceTree ==
  \/ GenerateTraceFromTree
  \/ EnterNode
  \/ SelectEdge
  \/ CallChild
  \/ ReturnFromNode
  \/ RangeSpansByService

SpecTraceTree == InitTraceTree /\ [][NextTraceTree]_vars

(* NormalizeWeights and SelectChildren on any short list of edges *)
InitWeights ==
  /\ InitWorkload(CreateQueryWorkload(ScriptConfig), Solo, testStartTime)
  /\ InitLimiter(NewByteRateLimiter(0, defaultBurstMultiplier))
  /\ InitTree([Seed |-> 0, Root |-> 1, Nodes |-> ShortParentTree])
  /\ \E ws \in WeightLists : InitEdges(ws)
  /\ IdleGenerator

NextWeights ==
  \/ Normalize
  \/ SelectChildren

SpecWeights == InitWeights /\ [][NextWeights]_vars

(* two scripts asking the cardinality manager for one attribute, the first *)
(* with a cardinality of its own, the second with any or none              *)
InitPools ==
  /\ IdleModule
  /\ InitLimiter(NewByteRateLimiter(0, defaultBurstMultiplier))
  /\ InitTree([Seed |-> 0, Root |-> 1, Nodes |-> ShortParentTree])
  /\ InitEdges(<<>>)
  /\ InitWorkload(CreateQueryWorkload(ScriptConfig), Solo, testStartTime)
  /\ InitGenerator([Services |-> 1, SpanDepth |-> 1, SpansPerTrace |-> 1,
                    MaxFanOut |-> 2, FanOutVariance |-> 10,
                    ResourceAttributes |-> {}])
  /\ \E k \in CardinalityAttributes :
     \E n \in 1..MaxCardinality :
     \E other \in CardConfigs(k) :
       InitCardinality([g \in Callers |->
                          IF g = "g1" THEN k :> n ELSE other])

NextPools ==
  \E g \in Callers : GetValueRLock(g) \/ GetValueIndex(g) \/ GetValueLock(g)

SpecPools == InitPools /\ [][NextPools]_vars

(* the callers of GetValue beside seeded tree generations, which reset the *)
(* pools                                                                   *)
NextPoolReset ==
  \/ \E g \in Callers :
       \/ GetValueRLock(g)
       \/ GetValueIndex(g)
       \/ GetValueLock(g)
  \/ ResetPools

SpecPoolReset == InitPools /\ [][NextPoolReset]_vars

(* GenerateTrace with any small Config that names no tree and no workflow *)
InitDefaultTrace ==
  /\ IdleModule
  /\ InitLimiter(NewByteRateLimiter(0, defaultBurstMultiplier))
  /\ InitTree([Seed |-> 0, Root |-> 1, Nodes |-> ShortParentTree])
  /\ InitEdges(<<>>)
  /\ InitWorkload(CreateQueryWorkload(ScriptConfig), Solo, testStartTime)
  /\ InitCardinality([g \in Callers |-> <<>>])
  /\ \E c \in GeneratorConfigs : InitGenerator(c)

NextDefaultTrace ==
  \/ GenerateTrace
  \/ AddChildSpan
  \/ ReturnTraces

SpecDefaultTrace == InitDefaultTrace /\ [][NextDefaultTrace]_vars

(* a script calling the functions the module exports *)
InitModule ==
  /\ InitWorkload(CreateQueryWorkload(ScriptConfig), Solo, testStartTime)
  /\ IdleLimiter

NextModule ==
  \/ generateTrace
  \/ generateBatch
  \/ estimateTraceSize
  \/ calculateThroughput
  \/ createQueryWorkload

SpecModule == InitModule /\ [][NextModule]_vars

(* goroutines pushing batches through one byte rate limiter while its rate *)
(* is set and time passes                                                  *)
NextPushBatch ==
  \/ \E g \in Waiters :
       \/ PushBatchWithRateLimit(g)
       \/ PushCancel(g)
       \/ WaitLock(g)
       \/ WaitSnapshot(g)
       \/ WaitN(g)
       \/ PushAfterWait(g)
       \/ ExportBatch(g)
  \/ CallSetRate
  \/ SetRateLock
  \/ SetRateStore
  \/ LimiterRefill

SpecPushBatch == InitByteLimiter /\ [][NextPushBatch]_vars

(***************************************************************************)
(* Properties of the backoff state machine                                 *)
(***************************************************************************)

(* the transitions made by HandleHTTPResponse on an overload status that   *)
(* carries no Retry-After header                                           *)
LadderStep(t) ==
  /\ t.kind = "response"
  /\ Overload(t.resp.status)
  /\ t.resp.retryAfter = <<>>

(* C1: with backoff enabled, under any min-backoff/max-backoff             *)
(* configuration, a 429 or 5xx response without Retry-After never lowers   *)
(* the backoff and never takes it above max-backoff: from 0 it goes to     *)
(* min-backoff, from d > 0 to min(1.5 d, max-backoff).                     *)
C1_BackoffLadder ==
  \A w \in AllWorkers :
    LET t == transition[w] IN
    (cfg.EnableBackoff /\ LadderStep(t)) =>
      /\ DurLeq(t.old, t.new)
      /\ DurLeq(t.new, MaxBackoff(cfg))
      /\ (t.old = Zero => t.new = MinBackoff(cfg))
      /\ (DurLess(Zero, t.old) =>
            DurAdd(t.new, t.new) =
              DurMin(DurAdd(t.old, DurAdd(t.old, t.old)),
                     DurAdd(MaxBackoff(cfg), MaxBackoff(cfg))))

(* C2: handling a response whose status is neither 429 nor 5xx leaves the  *)
(* backoff duration at 0, whatever it was.                                 *)
C2_OtherStatusResets ==
  \A w \in AllWorkers :
    LET t == transition[w] IN
    (t.kind = "response" /\ ~Overload(t.resp.status)) => t.new = Zero

C2_Witness ==
  \E w \in AllWorkers :
    /\ transition[w].kind = "response"
    /\ transition[w].resp.status = 200
    /\ DurLess(Zero, transition[w].old)
    /\ transition[w].new = Zero
    /\ backoffDuration = Zero

(* the transitions made on an overload status whose Retry-After is an      *)
(* integer number of seconds                                               *)
RetryAfterStep(t) ==
  /\ t.kind = "response"
  /\ Overload(t.resp.status)
  /\ t.resp.retryAfter # <<>>
  /\ AtoiOk(t.resp.retryAfter)

(* min(N seconds, max-backoff) for the integer N of the header text s: N   *)
(* seconds exceed any max-backoff once N has a third limb                  *)
ClampedSeconds(s, maxMs) ==
  LET m == Trim(DigitLimbs(AtoiDigits(s)))
  IN  IF s[1] = "-" THEN Dur(0 - LimbsValue(m) * MsPerSecond)
      ELSE IF Len(m) >= 3 \/ LimbsValue(m) * MsPerSecond > maxMs
      THEN Dur(maxMs)
      ELSE Dur(LimbsValue(m) * MsPerSecond)

(* C3: with backoff enabled, a 429 or 5xx response with Retry-After: N     *)
(* sets the backoff to min(N seconds, max-backoff), whatever it was: 60    *)
(* under a max-backoff of 30000 ms gives 30000 ms.                         *)
C3_RetryAfterClamp ==
  \A w \in AllWorkers :
    LET t == transition[w] IN
    (cfg.EnableBackoff /\ RetryAfterStep(t)) =>
      /\ t.new = ClampedSeconds(t.resp.retryAfter, cfg.MaxBackoffMs)
      /\ (t.resp.retryAfter = <<"6", "0">> /\ cfg.MaxBackoffMs = 30000
            => t.new = Dur(30000))

(* C4: after a search (on either path) or a trace fetch failed with no     *)
(* HTTP response, the backoff duration is 0, whatever it was.              *)
C4_TransportErrorResets ==
  \A w \in AllWorkers :
    transition[w].kind \in {"reset", "ignored"} => transition[w].new = Zero

(* the positions at which a worker's next step reads or writes             *)
(* backoffDuration                                                         *)
AccessesBackoff(w) ==
  \/ pc[w] \in {"backoffCheck", "readOld", "handleBody", "recordBackoffValue"}
  \/ pc[w] = "recordBackoff" /\ cfg.EnableBackoff

(* C5: every read and write of backoffDuration is made by the holder of    *)
(* backoffMutex.                                                           *)
C5_AccessUnderMutex ==
  \A w \in AllWorkers : AccessesBackoff(w) => backoffMutex = w

(* C6: a call whose context was cancelled while it waited for the rate     *)
(* limiter or slept in backoff ends with an error, has sent no search and  *)
(* has emitted no metric.                                                  *)
C6_CancelledCallIsSilent ==
  \A w \in AllWorkers :
    (pc[w] = "done" /\ history[w].cancelledIn \in {"wait", "sleeping"}) =>
      /\ err[w] # "nil"
      /\ history[w].searches = 0
      /\ emitted[w] = NoMetrics

BucketNames == {cfg.TimeBuckets[i].Name : i \in 1..Len(cfg.TimeBuckets)}

(* C7: once the sampled plan entry names an unknown query or an unknown    *)
(* bucket, the call has ended with the lookup error, and it has sent no    *)
(* request, emitted no metric and written no backoff duration.             *)
C7_UnknownNameFailsQuietly ==
  \A w \in AllWorkers :
    (planEntry[w] # NoEntry /\
       (planEntry[w].QueryName \notin Queries \/
        planEntry[w].BucketName \notin BucketNames)) =>
      /\ pc[w] = "done"
      /\ err[w] = IF planEntry[w].QueryName \notin Queries
                  THEN "query_definition_not_found"
                  ELSE "time_bucket_not_found"
      /\ history[w].searches = 0
      /\ history[w].fetches = 0
      /\ history[w].writes = 0
      /\ emitted[w] = NoMetrics
      /\ transition[w] = NoTransition

C7_Witness ==
  \E w \in AllWorkers :
    /\ pc[w] = "done"
    /\ planEntry[w].BucketName = "nosuchbucket"
    /\ err[w] = "time_bucket_not_found"
    /\ history[w].tokens = 1
    /\ DurLess(Zero, backoffDuration)

(* C8: when a call has ended, it has emitted one backoff event for each    *)
(* of its responses that raised the backoff, with the sample new - old,    *)
(* and no other backoff event.                                             *)
C8_BackoffEventPerIncrease ==
  \A w \in AllWorkers :
    pc[w] = "done" =>
      /\ history[w].samples = history[w].increases
      /\ emitted[w].query_backoff_events_total = Len(history[w].increases)
      /\ emitted[w].query_backoff_duration_seconds = Len(history[w].increases)

(***************************************************************************)
(* Properties of the query time window                                     *)
(***************************************************************************)

(* the ages of the configured buckets, in ms *)
BucketAges ==
  [recent |-> [ageStart |-> 0, ageEnd |-> HourMs],
   old |-> [ageStart |-> HourMs, ageEnd |-> 6 * HourMs]]

(* the window of the call of worker w, decided at wall clock window[w].at  *)
(* for a bucket of these ages                                              *)
WindowOf(w, ages) ==
  LET elapsed == window[w].at - testStartTime IN
  IF elapsed < ages.ageEnd
  THEN /\ ~window[w].eligible
       /\ request[w].sent =>
            /\ request[w].start = AtTime(request[w].at - HourMs)
            /\ request[w].end = NoTime
  ELSE /\ window[w].eligible
       /\ window[w].start - window[w].offset = window[w].at - ages.ageEnd
       /\ window[w].end - window[w].offset = window[w].at - ages.ageStart
       /\ request[w].sent =>
            /\ request[w].start = AtTime(window[w].start)
            /\ request[w].end = AtTime(window[w].end)

(* C9: for a bucket with ages (ageStart, ageEnd), a call made when less    *)
(* than ageEnd has elapsed since the start of the test searches the        *)
(* default window, from one hour ago to now; a later call searches from    *)
(* now - ageEnd to now - ageStart, shifted by the jitter offset.           *)
C9_WindowFromBucketAges ==
  \A w \in AllWorkers :
    (planEntry[w] # NoEntry /\ planEntry[w].QueryName \in Queries
       /\ planEntry[w].BucketName \in DOMAIN BucketAges) =>
      WindowOf(w, BucketAges[planEntry[w].BucketName])

C9_Witness ==
  \E w \in AllWorkers :
    /\ planEntry[w].BucketName = "old"
    /\ window[w].at = testStartTime + 7 * HourMs
    /\ window[w].offset = 0
    /\ window[w].start = window[w].at - 6 * HourMs
    /\ window[w].end = window[w].at - HourMs
    /\ request[w].sent
    /\ request[w].start = AtTime(window[w].start)

(***************************************************************************)
(* Properties of the byte rate limiter                                     *)
(***************************************************************************)

(* what holds of a Wait at every moment: its requests fit the burst of the *)
(* limiter they go to, only cancellation makes it fail, and it returns     *)
(* with n tokens acquired, or with none when n <= 0                        *)
WaitInBounds(g) ==
  LET f == wait[g] IN
  /\ f.issued.amount <= f.issued.burst
  /\ f.pc = "waitN" =>
       /\ f.waitAmount >= 1
       /\ f.waitAmount <= limiters[f.limiter].burst
  /\ f.err # "nil" => f.ctxDone /\ f.err = "context_canceled"
  /\ f.acquired <= (IF f.n > 0 THEN f.n ELSE 0)
  /\ (f.pc = "returned" /\ f.n > 0 /\ ~f.ctxDone) =>
       f.err = "nil" /\ f.acquired = f.n
  /\ (f.pc = "returned" /\ f.n <= 0) =>
       f.err = "nil" /\ f.acquired = 0 /\ f.issued.amount = 0

(* C10: Wait(n) with n > 0 returns, having acquired n tokens in requests   *)
(* that each fit the burst of the limiter they were issued to, however     *)
(* SetRate interleaves; only cancellation makes it fail; with n <= 0 it    *)
(* returns at once and acquires nothing.                                   *)
C10_WaitAcquiresAllBytes ==
  /\ [](\A g \in Waiters : WaitInBounds(g))
  /\ \A g \in Waiters :
       (wait[g].pc \in {"lock", "snapshot", "waitN"})
         ~> (wait[g].pc = "returned")

C10_Witness ==
  \E g \in Waiters :
    /\ wait[g].pc = "returned"
    /\ wait[g].n = MaxBytes
    /\ wait[g].acquired = MaxBytes
    /\ wait[g].err = "nil"
    /\ wait[g].used = {1, 2}
    /\ limiters[1].burst # limiters[2].burst
    /\ wait[g].issued.burst = limiters[2].burst

SwapIsConsistent ==
  /\ byteLimiter.limiter \in 1..Len(limiters)
  /\ byteLimiter.targetBytesPerSec = limiters[byteLimiter.limiter].limit
  /\ \A i \in 2..Len(limiters) :
       limiters[i].burst =
         (IF (3 * limiters[i].limit) \div 2 < 1 THEN 1
          ELSE (3 * limiters[i].limit) \div 2)
  /\ \A g \in Waiters :
       wait[g].pc = "waitN" =>
         /\ wait[g].burstSize = limiters[wait[g].limiter].burst
         /\ wait[g].waitAmount =
              (IF wait[g].bytes > wait[g].burstSize THEN wait[g].burstSize
               ELSE wait[g].bytes)

(* a step in which SetRate(r) stores: a new full limiter of rate r becomes *)
(* the current one in that one step, and the limiters in use stay as they  *)
(* are; no other step changes the current limiter                          *)
SwapStep ==
  /\ byteLimiter' # byteLimiter => setRate.pc = "store"
  /\ (setRate.pc = "store" /\ setRate'.pc = "idle") =>
       /\ setRate.targetBytesPerSec > 0
       /\ Len(limiters') = Len(limiters) + 1
       /\ SubSeq(limiters', 1, Len(limiters)) = limiters
       /\ byteLimiter'.limiter = Len(limiters')
       /\ limiters'[Len(limiters')].limit = setRate.targetBytesPerSec
       /\ limiters'[Len(limiters')].tokens = limiters'[Len(limiters')].burst

(* a step in which SetRate(r) is called with r <= 0: it has returned and   *)
(* nothing of the limiter changed                                          *)
NonPositiveRateStep ==
  (lcalls'.SetRate = lcalls.SetRate + 1 /\ setRate'.targetBytesPerSec <= 0) =>
    /\ setRate'.pc = "idle"
    /\ byteLimiter' = byteLimiter
    /\ limiters' = limiters
    /\ mu' = mu

(* C12: SetRate(r) with r > 0 swaps the limiter in one step under the      *)
(* mutex, so that every chunk of a concurrent Wait is cut for and issued   *)
(* to one limiter, the old or the new; the new burst is max(1, int(1.5 r)) *)
(* whatever multiplier the limiter was constructed with; SetRate(r) with   *)
(* r <= 0 changes nothing.                                                 *)
C12_SetRateSwapsAtomically ==
  /\ []SwapIsConsistent
  /\ [][SwapStep]_vars
  /\ [][NonPositiveRateStep]_vars

C12_Witness ==
  \E g \in Waiters :
    /\ Len(limiters) = 2
    /\ byteLimiter.limiter = 2
    /\ limiters[1].burst = 1
    /\ limiters[2].limit = 3
    /\ limiters[2].burst = 4
    /\ wait[g].pc = "waitN"
    /\ wait[g].limiter = 1
    /\ wait[g].burstSize = 1

(***************************************************************************)
(* C13: for any tree config, parents a few milliseconds long included, and *)
(* any values read, every span that has a parent starts no earlier than    *)
(* its parent and ends at least one millisecond before its parent ends.    *)
(***************************************************************************)
C13_ChildInsideParent ==
  \A c \in DOMAIN treeSpans :
    treeSpans[c].Parent # 0 =>
      /\ treeSpans[treeSpans[c].Parent].Start <= treeSpans[c].Start
      /\ treeSpans[c].End + NsPerMs <= treeSpans[treeSpans[c].Parent].End

(***************************************************************************)
(* C14: with a seed other than 0, two invocations one after the other      *)
(* return the same trace: trace id, span ids, timestamps, attributes and   *)
(* the order of the resource groups, whatever the clock and the map        *)
(* iteration order.                                                        *)
(***************************************************************************)
C14_SeededInvocationsAgree ==
  treeConfig.Seed # 0 /\ Len(generated) >= 2 =>
    generated[1].trace = generated[2].trace

(* the call that built span i has returned *)
Returned(i) == \A k \in DOMAIN stack : stack[k].span # i

(***************************************************************************)
(* C15: whenever a child span, sequential or parallel, has status error    *)
(* and its node propagates errors, the parent's status is error, with a    *)
(* message, once the parent has returned.                                  *)
(***************************************************************************)
C15_ErrorReachesParent ==
  \A c \in DOMAIN treeSpans :
    LET child == treeSpans[c]
    IN  /\ child.Parent # 0
        /\ Returned(child.Parent)
        /\ child.Code = "ERROR"
        /\ treeConfig.Nodes[child.Node].ErrorPropagates
        => /\ treeSpans[child.Parent].Code = "ERROR"
           /\ treeSpans[child.Parent].Message # ""

(* the sequential children of the parent of span c built before c *)
EarlierSequential(c) ==
  { a \in 1..(c - 1) :
      /\ treeSpans[a].Parent = treeSpans[c].Parent
      /\ ~treeSpans[a].Parallel }

(***************************************************************************)
(* C16: a sequential child starts no earlier than the sequential sibling   *)
(* built just before it ends, and a parallel child starts no earlier than  *)
(* the last sequential child of its parent ends.                           *)
(***************************************************************************)
C16_SequentialChildrenInOrder ==
  \A c \in DOMAIN treeSpans :
    treeSpans[c].Parent # 0 /\ EarlierSequential(c) # {} =>
      LET previous ==
            CHOOSE a \in EarlierSequential(c) :
              \A b \in EarlierSequential(c) : b <= a
      IN  treeSpans[c].Start >= treeSpans[previous].End

(* the weights the script declared, as NormalizeWeights first finds them *)
DeclaredWeights == [i \in DOMAIN edges |-> Float64Literal(edges[i].Declared, 10)]

DeclaredPositive == { i \in DOMAIN edges : edges[i].Declared > 0 }

RECURSIVE DeclaredSum(_, _)
DeclaredSum(i, total) ==
  IF i > Len(edges) THEN total
  ELSE DeclaredSum(i + 1, IF i \in DeclaredPositive
                          THEN Float64Add(total, DeclaredWeights[i])
                          ELSE total)

(***************************************************************************)
(* C17: NormalizeWeights gives every edge 1/n when no weight is positive;  *)
(* otherwise it divides each positive weight by the sum of the positive    *)
(* ones, leaves the others as they are, and those are never selected; and  *)
(* normalizing a list again leaves it as the first normalization left it.  *)
(***************************************************************************)
C17_NormalizeWeightsIsStable ==
  \A j \in DOMAIN picks.lists :
    /\ \A i \in DOMAIN edges :
         picks.lists[1][i].Weight =
           IF DeclaredPositive = {}
           THEN Float64Div(Float64(1), Float64(Len(edges)))
           ELSE IF i \in DeclaredPositive
           THEN Float64Div(DeclaredWeights[i], DeclaredSum(1, Float64Zero))
           ELSE DeclaredWeights[i]
    /\ DeclaredPositive # {} => picks.selected \subseteq DeclaredPositive
    /\ picks.lists[j] = picks.lists[1]

(***************************************************************************)
(* C18: an edge declared with weight 1.0 is among the selected children on *)
(* every visit of its parent, whatever weights its siblings have.          *)
(***************************************************************************)
C18_WeightOneIsAlwaysSelected ==
  \A k \in DOMAIN stack :
    stack[k].phase = "children" =>
      \A e \in DOMAIN treeConfig.Nodes[stack[k].node].Children :
        treeConfig.Nodes[stack[k].node].Children[e].Declared = 10 =>
          \E x \in DOMAIN stack[k].selected :
            stack[k].selected[x].Node =
              treeConfig.Nodes[stack[k].node].Children[e].Node

(***************************************************************************)
(* C19: for an attribute a caller configures with cardinality n > 0,       *)
(* whatever the other callers ask and with whatever cardinality: once the  *)
(* caller has been served from the pool, the count reported for the        *)
(* attribute is n and every value the caller gets is one of the n values   *)
(* of the pool of size n.                                                  *)
(***************************************************************************)
C19_PoolKeepsItsCardinality ==
  \A g \in Callers :
    \A k \in DOMAIN cardConfig[g] :
      LET n == cardConfig[g][k]
          values == { generateValuePool(k, n)[i] : i \in 1..n }
          answers == { i \in DOMAIN returned[g] : returned[g][i].attrName = k }
      IN  answers # {} =>
            /\ k \in DOMAIN GetCardinalityStats
            /\ GetCardinalityStats[k] = n
            /\ Cardinality(values) = n
            /\ \A i \in answers : returned[g][i].value \in values

(* every service.name attribute among attributes is one of resource *)
ServiceNameOf(attributes, resource) ==
  \A a \in DOMAIN attributes :
    attributes[a][1] = "service.name" => attributes[a] \in resource

(***************************************************************************)
(* C20: in every trace returned, by the tree generator or by GenerateTrace *)
(* without a tree, the service.name attribute of each span is the          *)
(* service.name of the resource group the span is written under.           *)
(***************************************************************************)
C20_SpanServiceIsResourceService ==
  /\ resourceSpans.phase = "done" =>
       \A i \in DOMAIN resourceSpans.Spans :
         ServiceNameOf(resourceSpans.Spans[i].Attributes,
                       resourceSpans.Resource)
  /\ \A t \in DOMAIN generated :
       \A r \in DOMAIN generated[t].trace.resourceSpans :
         \A i \in DOMAIN generated[t].trace.resourceSpans[r].Spans :
           ServiceNameOf(
             generated[t].trace.resourceSpans[r].Spans[i].Attributes,
             generated[t].trace.resourceSpans[r].Resource)

(***************************************************************************)
(* C21: executeSearchAndFetch sends a trace fetch only after a search that *)
(* succeeded and returned at least one trace, and asks for the first trace *)
(* of the result; when the search fails its error is what the call returns *)
(* and no fetch is made; a fetch, failed or not, leaves the returned error *)
(* nil, pushes one latency sample and pushes one failure sample exactly    *)
(* when it failed; and the HTTP response of the fetch, when there is one,  *)
(* is handed to HandleHTTPResponse, which is the only thing the fetch does *)
(* to the backoff.                                                         *)
(***************************************************************************)
FetchWasMade(w) == pc[w] \in {"handleResp", "handleBody", "fetchRecord", "done"} /\ path[w] = "fetch"

GeneratorFunctions ==
  {"generateTrace", "generateBatch", "estimateTraceSize",
   "calculateThroughput"}

SetsBothPaths(script) ==
  /\ "useTraceTree" \in DOMAIN script /\ script.useTraceTree = Bool(TRUE)
  /\ "useWorkflows" \in DOMAIN script /\ script.useWorkflows = Bool(TRUE)

(* C22: a trace config that sets both useTraceTree and useWorkflows to     *)
(* true fails validation, and every call that generates a trace, a batch   *)
(* or an estimate from it returns a configuration error instead of taking  *)
(* the tree path or the workflow path.                                     *)
C22_BothPathsRejected ==
  \A i \in 1..Len(moduleCalls) :
    LET call == moduleCalls[i]
    IN  (call.fn \in GeneratorFunctions /\ SetsBothPaths(call.config))
          => /\ Validate([call.cfg EXCEPT !.UseTraceTree = TRUE,
                                          !.UseWorkflows = TRUE]) # "nil"
             /\ call.err # "nil"
             /\ call.path = "none"

InvalidWorkloadConfig(workloadConfig) ==
  \/ workloadConfig.TraceFetchProbability < 0
  \/ workloadConfig.TraceFetchProbability > 10
  \/ \E i \in 1..Len(workloadConfig.TimeBuckets) :
       \/ ~ParseDurationOk(workloadConfig.TimeBuckets[i].AgeStart)
       \/ ~ParseDurationOk(workloadConfig.TimeBuckets[i].AgeEnd)

MalformedTraceTree(script) ==
  /\ "traceTree" \in DOMAIN script
  /\ parseTraceTree(script.traceTree).err # "nil"

(* C23: createQueryWorkload from a config with an unparseable ageStart or  *)
(* ageEnd or a traceFetchProbability outside [0, 1] returns a              *)
(* configuration error, and so does a generator call whose config holds a  *)
(* traceTree that does not parse: none yields a usable object or falls     *)
(* back to another generation path.                                        *)
C23_InvalidConfigFailsAtConstruction ==
  \A i \in 1..Len(moduleCalls) :
    LET call == moduleCalls[i]
    IN  /\ (call.fn = "createQueryWorkload"
              /\ InvalidWorkloadConfig(call.cfg))
             => call.err # "nil"
        /\ (call.fn \in GeneratorFunctions
              /\ MalformedTraceTree(call.config))
             => call.err # "nil"

SearchMetrics ==
  {"query_duration_seconds", "query_requests_total", "query_failures_total",
   "query_time_bucket_queries_total", "query_time_bucket_duration_seconds"}

(* C25: a call that has sent its search, through an eligible bucket or     *)
(* through the default window, has emitted one query-requests-total and    *)
(* one query-duration sample, one query-failures-total exactly when the    *)
(* search returned an error, and one time-bucket-queries-total with one    *)
(* time-bucket-duration-seconds; no call emits any of them twice.          *)
C25_OneSampleSetPerSearch ==
  \A w \in scenario.workers :
    /\ \A k \in SearchMetrics : emitted[w][k] <= 1
    /\ history[w].searches = 1
         => /\ emitted[w].query_requests_total = 1
            /\ emitted[w].query_duration_seconds = 1
            /\ emitted[w].query_failures_total = 1 <=> err[w] # "nil"
            /\ emitted[w].query_time_bucket_queries_total = 1
            /\ emitted[w].query_time_bucket_duration_seconds = 1

(* C26: a call that finds a backoff duration d > 0 in applyBackoff sleeps, *)
(* for a delay between d and d + d/10, and for d itself without jitter,    *)
(* whatever the positive d; and it goes on to the plan sampling: it does   *)
(* not end in applyBackoff.                                                *)
C26_PositiveBackoffSleeps ==
  \A w \in scenario.workers :
    /\ err[w] # "panic"
    /\ pc[w] = "sleeping"
         => /\ DurLess(Zero, backoffDuration)
            /\ DurLeq(backoffDuration, sleep[w].delay)
            /\ DurLeq(sleep[w].delay,
                      DurAdd(backoffDuration,
                             Dur(Milliseconds(backoffDuration) \div 10)))
            /\ ~cfg.BackoffJitter => sleep[w].delay = backoffDuration

(* C27: the backoff duration is never negative and never above MaxBackoff, *)
(* whatever the responses and the configured MinBackoff and MaxBackoff,    *)
(* and it is 0 as long as EnableBackoff is false.                          *)
C27_BackoffWithinBounds ==
  /\ DurLeq(Zero, backoffDuration)
  /\ DurLeq(backoffDuration, MaxBackoff(cfg))
  /\ ~cfg.EnableBackoff => backoffDuration = Zero

(* a step in which worker v reads or writes qw.backoffDuration, or starts  *)
(* a sleep of its own                                                      *)
TouchesBackoff(v) ==
  /\ pc[v] \in {"backoffCheck", "handleBody", "readOld", "recordBackoff",
                "recordBackoffValue"}
  /\ pc'[v] # pc[v]

(* C28: a worker sleeps in applyBackoff with the backoff mutex held, and   *)
(* until its sleep ends no other worker of the workload reads or changes   *)
(* the backoff duration or sleeps: the sleeps never overlap.               *)
C28_SleepExcludesOthers ==
  [][\A w \in AllWorkers :
       pc[w] = "sleeping"
         => /\ backoffMutex = w
            /\ \A v \in AllWorkers \ {w} :
                 /\ pc[v] # "sleeping"
                 /\ ~TouchesBackoff(v)]_vars

(* C29: a call holds one rate limiter token, never more, from before its   *)
(* backoff sleep, its plan sampling and its requests on; it sends at most  *)
(* one search and at most one trace fetch, and once the fetch is under way *)
(* it neither waits for a token nor sleeps in backoff.                     *)
C29_OneTokenOneSearch ==
  \A w \in scenario.workers :
    /\ history[w].tokens <= 1
    /\ history[w].searches <= 1
    /\ history[w].fetches <= 1
    /\ (pc[w] \notin {"idle", "wait", "done"}) => history[w].tokens = 1
    /\ (\/ sleep[w].state # "none"
        \/ planEntry[w] # NoEntry
        \/ path[w] # "none"
        \/ request[w].sent
        \/ history[w].searches > 0
        \/ history[w].fetches > 0) => history[w].tokens = 1
    /\ history[w].fetches > 0 => op[w] = "executeSearchAndFetch"
    /\ path[w] = "fetch"
         => pc[w] \in {"handleResp", "handleBody", "fetchRecord", "done"}

(* a call of executeSearchAndFetch that slept in backoff, searched and     *)
(* fetched a trace on one token                                            *)
C29_Witness ==
  \E w \in scenario.workers :
    /\ pc[w] = "done" /\ op[w] = "executeSearchAndFetch"
    /\ sleep[w].state = "elapsed"
    /\ history[w].searches = 1 /\ history[w].fetches = 1
    /\ history[w].tokens = 1

(***************************************************************************)
(* C30: the value pools under concurrent GetValue and ResetPools.          *)
(***************************************************************************)
(* the maps agree: a name has a recorded cardinality exactly when it has a *)
(* pool, and the cardinality is the length of the pool and of its array    *)
CardinalityIsPoolLength ==
  /\ DOMAIN cardinality = DOMAIN valuePools
  /\ \A k \in DOMAIN valuePools :
       /\ valuePools[k].array \in DOMAIN arrays
       /\ cardinality[k] = valuePools[k].len
       /\ valuePools[k].len = Len(arrays[valuePools[k].array].values)
       /\ arrays[valuePools[k].array].attrName = k

(* of two arrays generated for one name between two resets the later is    *)
(* the longer: none is generated twice for a cardinality and no pool       *)
(* shrinks                                                                 *)
PoolsOnlyGrow ==
  \A a, b \in DOMAIN arrays :
    (a < b /\ arrays[a].attrName = arrays[b].attrName
           /\ arrays[a].epoch = arrays[b].epoch)
      => Len(arrays[a].values) < Len(arrays[b].values)

(* the fast path indexes the slice it read below its length, which is the  *)
(* length of its array, and nothing returned is the panic of an index      *)
IndexInsideArrayRead ==
  \A g \in Callers :
    /\ getValue[g].pc = "index"
         => /\ getValue[g].poolLen >= 1
            /\ getValue[g].poolLen = getValue[g].pool.len
            /\ getValue[g].pool.array \in DOMAIN arrays
            /\ getValue[g].poolLen
                 = Len(arrays[getValue[g].pool.array].values)
    /\ \A i \in DOMAIN returned[g] :
         returned[g][i].value # "index out of range"

(* an array, once allocated, keeps its values *)
ArraysAreImmutable ==
  \A id \in DOMAIN arrays : id \in DOMAIN arrays' /\ arrays'[id] = arrays[id]

(* C30: under every interleaving of GetValue and ResetPools the recorded   *)
(* cardinality of a name is the length of its published pool, a published  *)
(* array is never modified in place, a pool is generated once for a name   *)
(* and cardinality and never shrinks between resets, and GetValue never    *)
(* indexes outside the array it read.                                      *)
C30_PoolsPublishedImmutable ==
  /\ [](CardinalityIsPoolLength /\ PoolsOnlyGrow /\ IndexInsideArrayRead)
  /\ [][ArraysAreImmutable]_vars

(* a caller is about to index the array it read although the pools were   *)
(* reset since and the name has a new, longer pool in another array        *)
C30_Witness ==
  \E g \in Callers :
    /\ resets = 1
    /\ getValue[g].pc = "index"
    /\ getValue[g].attrName \in DOMAIN valuePools
    /\ valuePools[getValue[g].attrName].array # getValue[g].pool.array
    /\ valuePools[getValue[g].attrName].len > getValue[g].poolLen

====
